---------------------------- MODULE Spec2Model ----------------------------
(***************************************************************************)
(* Model of the VoidGuard safety engine (src/src/services/                 *)
(* VoidGuardService.js): the seven category checks, the weighted           *)
(* compliance score, the risk assessment, the recommendations and the      *)
(* bounded in-memory audit log, together with the asynchronous             *)
(* validateSafety call and the getAuditLog read.                           *)
(*                                                                         *)
(* Numbers.  The source computes with IEEE doubles.  The model carries     *)
(* the same quantities exactly, as integers in fixed decimal units:        *)
(*   - a category score is held in thousandths (1.0 is 1000); a penalty    *)
(*     factor is held in tenths, and `score *= 0.8` is Mul(score, 8);      *)
(*   - a weight is held in hundredths (0.15 is 15);                        *)
(*   - totalScore (weight * score) is held in units of 1/100000;           *)
(*   - a compliance score or a threshold is a reduced fraction             *)
(*     [num, den] (the division totalScore / totalWeight is not a finite   *)
(*     decimal when categories are missing).                               *)
(* The doubles of the source differ from these exact values by at most a   *)
(* few ulps (0.8 * 0.9 is 0.7200000000000001); on every comparison the     *)
(* model makes (the status thresholds 0.8 and 0.6, and the compliance      *)
(* thresholds 0, 0.95, 0.96, 0.99 and 1.0 used below) the double and the   *)
(* exact comparison agree for all 2^21 deficiency patterns.                *)
(*                                                                         *)
(* Scheduling.  JavaScript runs every callback to completion, so the only  *)
(* point at which another call can run inside validateSafety is its        *)
(* single `await`; the model has one action for the part before it and     *)
(* one for the part after it.                                              *)
(***************************************************************************)
EXTENDS Integers, Sequences, FiniteSets, TLC

(***************************************************************************)
(* JavaScript values of the descriptor's flags: "undefined", "false",      *)
(* "true", "[]", "[x]", "{enabled:false}", "{enabled:true}",               *)
(* "{conducted:false}" and "{conducted:true}".                             *)
(***************************************************************************)
JSUndefined == "undefined"

\* !v is false
Truthy(v) == v \notin {"undefined", "false"}

\* v.length === 0
LengthIsZero(v) == v = "[]"

\* v.enabled is truthy
Enabled(v) == v = "{enabled:true}"

\* v.conducted is truthy
Conducted(v) == v = "{conducted:true}"

Flags ==
    << "ethicalBoundaries", "harmPrevention", "valuesAlignment",
       "encryption", "dataMinimization", "consentManagement",
       "biasTesting", "fairnessMetrics", "datasetDiversity",
       "explainability", "decisionLogging", "modelDocumentation",
       "humanOversight", "manualOverride", "escalationProcedures",
       "adversarialTesting", "errorHandling", "performanceMonitoring",
       "responsibilityMatrix", "auditTrail", "incidentResponse" >>

FlagSet == { Flags[i] : i \in 1..Len(Flags) }

\* A descriptor is a function on the flags and on "typeof", which tells an
\* object from a value that is none: a property read of null or undefined
\* throws, a property read of a primitive (a number) yields undefined.
DescriptorKeys == FlagSet \cup {"typeof"}

Throws(aiSystem) == aiSystem["typeof"] \in { "null", "undefined" }

\* aiSystem.<flag>
Prop(aiSystem, flag) ==
    IF aiSystem["typeof"] = "object" THEN aiSystem[flag] ELSE JSUndefined

(***************************************************************************)
(* Arithmetic helpers.                                                     *)
(***************************************************************************)
Max(a, b) == IF a >= b THEN a ELSE b

Min(a, b) == IF a <= b THEN a ELSE b

\* score *= tenths / 10, on a score in thousandths
Mul(score, tenths) == (score * tenths) \div 10

RECURSIVE Gcd(_, _)
Gcd(a, b) == IF b = 0 THEN a ELSE Gcd(b, a % b)

\* the fraction n / d in lowest terms (d > 0)
Rat(n, d) == LET g == Gcd(n, d) IN [num |-> n \div g, den |-> d \div g]

\* not a number: what parseFloat(undefined) and an absent number give
NaN == [num |-> 0, den |-> 0]

\* a >= b; false when either side is NaN
RatGE(a, b) == a.den # 0 /\ b.den # 0 /\ a.num * b.den >= b.num * a.den

Issue(type, message) == [type |-> type, message |-> message]

(***************************************************************************)
(* The seven category checks.                                              *)
(***************************************************************************)
\* checkEthicalGuidelines with the length test inverted: a non-empty list of
\* boundaries is reported
checkEthicalGuidelinesInverted(aiSystem) ==
    LET d1 == \/ ~Truthy(Prop(aiSystem, "ethicalBoundaries"))
              \/ ~LengthIsZero(Prop(aiSystem, "ethicalBoundaries"))
        c1 == IF d1 THEN <<Issue("warning", "No ethical boundaries defined")>>
                    ELSE <<>>
        s1 == IF d1 THEN Mul(1000, 8) ELSE 1000
        d2 == ~Truthy(Prop(aiSystem, "harmPrevention"))
        c2 == IF d2 THEN Append(c1, Issue("error", "Harm prevention mechanisms not implemented"))
                    ELSE c1
        s2 == IF d2 THEN Mul(s1, 6) ELSE s1
        d3 == ~Truthy(Prop(aiSystem, "valuesAlignment"))
        c3 == IF d3 THEN Append(c2, Issue("warning", "Human values alignment not documented"))
                    ELSE c2
        s3 == IF d3 THEN Mul(s2, 9) ELSE s2
    IN  [ score  |-> Max(s3, 0),
          checks |-> c3,
          status |-> IF s3 >= 800 THEN "pass" ELSE IF s3 >= 600 THEN "warning" ELSE "fail" ]

checkEthicalGuidelines(aiSystem) ==
    LET d1 == \/ ~Truthy(Prop(aiSystem, "ethicalBoundaries"))
              \/ LengthIsZero(Prop(aiSystem, "ethicalBoundaries"))
        c1 == IF d1 THEN <<Issue("warning", "No ethical boundaries defined")>>
                    ELSE <<>>
        s1 == IF d1 THEN Mul(1000, 8) ELSE 1000
        d2 == ~Truthy(Prop(aiSystem, "harmPrevention"))
        c2 == IF d2 THEN Append(c1, Issue("error", "Harm prevention mechanisms not implemented"))
                    ELSE c1
        s2 == IF d2 THEN Mul(s1, 6) ELSE s1
        d3 == ~Truthy(Prop(aiSystem, "valuesAlignment"))
        c3 == IF d3 THEN Append(c2, Issue("warning", "Human values alignment not documented"))
                    ELSE c2
        s3 == IF d3 THEN Mul(s2, 9) ELSE s2
    IN  [ score  |-> Max(s3, 0),
          checks |-> c3,
          status |-> IF s3 >= 800 THEN "pass" ELSE IF s3 >= 600 THEN "warning" ELSE "fail" ]

checkDataPrivacy(aiSystem) ==
    LET d1 == \/ ~Truthy(Prop(aiSystem, "encryption"))
              \/ ~Enabled(Prop(aiSystem, "encryption"))
        c1 == IF d1 THEN <<Issue("error", "Data encryption not enabled")>>
                    ELSE <<>>
        s1 == IF d1 THEN Mul(1000, 5) ELSE 1000
        d2 == ~Truthy(Prop(aiSystem, "dataMinimization"))
        c2 == IF d2 THEN Append(c1, Issue("warning", "Data minimization principles not applied"))
                    ELSE c1
        s2 == IF d2 THEN Mul(s1, 8) ELSE s1
        d3 == ~Truthy(Prop(aiSystem, "consentManagement"))
        c3 == IF d3 THEN Append(c2, Issue("error", "User consent management not implemented"))
                    ELSE c2
        s3 == IF d3 THEN Mul(s2, 6) ELSE s2
    IN  [ score  |-> Max(s3, 0),
          checks |-> c3,
          status |-> IF s3 >= 800 THEN "pass" ELSE IF s3 >= 600 THEN "warning" ELSE "fail" ]

\* checkBias that accepts any biasTesting object, conducted or not
checkBiasIgnoresConducted(aiSystem) ==
    LET d1 == ~Truthy(Prop(aiSystem, "biasTesting"))
        c1 == IF d1 THEN <<Issue("error", "Bias testing not conducted")>>
                    ELSE <<>>
        s1 == IF d1 THEN Mul(1000, 4) ELSE 1000
        d2 == ~Truthy(Prop(aiSystem, "fairnessMetrics"))
        c2 == IF d2 THEN Append(c1, Issue("warning", "Fairness metrics not defined"))
                    ELSE c1
        s2 == IF d2 THEN Mul(s1, 8) ELSE s1
        d3 == ~Truthy(Prop(aiSystem, "datasetDiversity"))
        c3 == IF d3 THEN Append(c2, Issue("warning", "Dataset diversity not validated"))
                    ELSE c2
        s3 == IF d3 THEN Mul(s2, 9) ELSE s2
    IN  [ score  |-> Max(s3, 0),
          checks |-> c3,
          status |-> IF s3 >= 800 THEN "pass" ELSE IF s3 >= 600 THEN "warning" ELSE "fail" ]

checkBias(aiSystem) ==
    LET d1 == \/ ~Truthy(Prop(aiSystem, "biasTesting"))
              \/ ~Conducted(Prop(aiSystem, "biasTesting"))
        c1 == IF d1 THEN <<Issue("error", "Bias testing not conducted")>>
                    ELSE <<>>
        s1 == IF d1 THEN Mul(1000, 4) ELSE 1000
        d2 == ~Truthy(Prop(aiSystem, "fairnessMetrics"))
        c2 == IF d2 THEN Append(c1, Issue("warning", "Fairness metrics not defined"))
                    ELSE c1
        s2 == IF d2 THEN Mul(s1, 8) ELSE s1
        d3 == ~Truthy(Prop(aiSystem, "datasetDiversity"))
        c3 == IF d3 THEN Append(c2, Issue("warning", "Dataset diversity not validated"))
                    ELSE c2
        s3 == IF d3 THEN Mul(s2, 9) ELSE s2
    IN  [ score  |-> Max(s3, 0),
          checks |-> c3,
          status |-> IF s3 >= 800 THEN "pass" ELSE IF s3 >= 600 THEN "warning" ELSE "fail" ]

\* checkTransparency taking 0.6 instead of 0.8 for a missing decision log
checkTransparencyHarsh(aiSystem) ==
    LET d1 == \/ ~Truthy(Prop(aiSystem, "explainability"))
              \/ ~Enabled(Prop(aiSystem, "explainability"))
        c1 == IF d1 THEN <<Issue("error", "AI explainability not implemented")>>
                    ELSE <<>>
        s1 == IF d1 THEN Mul(1000, 5) ELSE 1000
        d2 == ~Truthy(Prop(aiSystem, "decisionLogging"))
        c2 == IF d2 THEN Append(c1, Issue("warning", "Decision logging not implemented"))
                    ELSE c1
        s2 == IF d2 THEN Mul(s1, 6) ELSE s1
        d3 == ~Truthy(Prop(aiSystem, "modelDocumentation"))
        c3 == IF d3 THEN Append(c2, Issue("warning", "Model documentation incomplete"))
                    ELSE c2
        s3 == IF d3 THEN Mul(s2, 9) ELSE s2
    IN  [ score  |-> Max(s3, 0),
          checks |-> c3,
          status |-> IF s3 >= 800 THEN "pass" ELSE IF s3 >= 600 THEN "warning" ELSE "fail" ]

checkTransparency(aiSystem) ==
    LET d1 == \/ ~Truthy(Prop(aiSystem, "explainability"))
              \/ ~Enabled(Prop(aiSystem, "explainability"))
        c1 == IF d1 THEN <<Issue("error", "AI explainability not implemented")>>
                    ELSE <<>>
        s1 == IF d1 THEN Mul(1000, 5) ELSE 1000
        d2 == ~Truthy(Prop(aiSystem, "decisionLogging"))
        c2 == IF d2 THEN Append(c1, Issue("warning", "Decision logging not implemented"))
                    ELSE c1
        s2 == IF d2 THEN Mul(s1, 8) ELSE s1
        d3 == ~Truthy(Prop(aiSystem, "modelDocumentation"))
        c3 == IF d3 THEN Append(c2, Issue("warning", "Model documentation incomplete"))
                    ELSE c2
        s3 == IF d3 THEN Mul(s2, 9) ELSE s2
    IN  [ score  |-> Max(s3, 0),
          checks |-> c3,
          status |-> IF s3 >= 800 THEN "pass" ELSE IF s3 >= 600 THEN "warning" ELSE "fail" ]

\* checkHumanControl with penalties subtracted instead of multiplied, and
\* no clamp
checkHumanControlSubtract(aiSystem) ==
    LET d1 == \/ ~Truthy(Prop(aiSystem, "humanOversight"))
              \/ ~Enabled(Prop(aiSystem, "humanOversight"))
        c1 == IF d1 THEN <<Issue("error", "Human oversight not implemented")>>
                    ELSE <<>>
        s1 == IF d1 THEN 1000 - 700 ELSE 1000
        d2 == ~Truthy(Prop(aiSystem, "manualOverride"))
        c2 == IF d2 THEN Append(c1, Issue("error", "Manual override not available"))
                    ELSE c1
        s2 == IF d2 THEN s1 - 500 ELSE s1
        d3 == ~Truthy(Prop(aiSystem, "escalationProcedures"))
        c3 == IF d3 THEN Append(c2, Issue("warning", "Escalation procedures not defined"))
                    ELSE c2
        s3 == IF d3 THEN s2 - 100 ELSE s2
    IN  [ score  |-> s3,
          checks |-> c3,
          status |-> IF s3 >= 800 THEN "pass" ELSE IF s3 >= 600 THEN "warning" ELSE "fail" ]

checkHumanControl(aiSystem) ==
    LET d1 == \/ ~Truthy(Prop(aiSystem, "humanOversight"))
              \/ ~Enabled(Prop(aiSystem, "humanOversight"))
        c1 == IF d1 THEN <<Issue("error", "Human oversight not implemented")>>
                    ELSE <<>>
        s1 == IF d1 THEN Mul(1000, 3) ELSE 1000
        d2 == ~Truthy(Prop(aiSystem, "manualOverride"))
        c2 == IF d2 THEN Append(c1, Issue("error", "Manual override not available"))
                    ELSE c1
        s2 == IF d2 THEN Mul(s1, 5) ELSE s1
        d3 == ~Truthy(Prop(aiSystem, "escalationProcedures"))
        c3 == IF d3 THEN Append(c2, Issue("warning", "Escalation procedures not defined"))
                    ELSE c2
        s3 == IF d3 THEN Mul(s2, 9) ELSE s2
    IN  [ score  |-> Max(s3, 0),
          checks |-> c3,
          status |-> IF s3 >= 800 THEN "pass" ELSE IF s3 >= 600 THEN "warning" ELSE "fail" ]

\* checkRobustness with the errorHandling test inverted: handling that is
\* present is reported
checkRobustnessInverted(aiSystem) ==
    LET d1 == \/ ~Truthy(Prop(aiSystem, "adversarialTesting"))
              \/ ~Conducted(Prop(aiSystem, "adversarialTesting"))
        c1 == IF d1 THEN <<Issue("warning", "Adversarial testing not conducted")>>
                    ELSE <<>>
        s1 == IF d1 THEN Mul(1000, 8) ELSE 1000
        d2 == Truthy(Prop(aiSystem, "errorHandling"))
        c2 == IF d2 THEN Append(c1, Issue("error", "Error handling mechanisms not implemented"))
                    ELSE c1
        s2 == IF d2 THEN Mul(s1, 6) ELSE s1
        d3 == ~Truthy(Prop(aiSystem, "performanceMonitoring"))
        c3 == IF d3 THEN Append(c2, Issue("warning", "Performance monitoring not implemented"))
                    ELSE c2
        s3 == IF d3 THEN Mul(s2, 9) ELSE s2
    IN  [ score  |-> Max(s3, 0),
          checks |-> c3,
          status |-> IF s3 >= 800 THEN "pass" ELSE IF s3 >= 600 THEN "warning" ELSE "fail" ]

checkRobustness(aiSystem) ==
    LET d1 == \/ ~Truthy(Prop(aiSystem, "adversarialTesting"))
              \/ ~Conducted(Prop(aiSystem, "adversarialTesting"))
        c1 == IF d1 THEN <<Issue("warning", "Adversarial testing not conducted")>>
                    ELSE <<>>
        s1 == IF d1 THEN Mul(1000, 8) ELSE 1000
        d2 == ~Truthy(Prop(aiSystem, "errorHandling"))
        c2 == IF d2 THEN Append(c1, Issue("error", "Error handling mechanisms not implemented"))
                    ELSE c1
        s2 == IF d2 THEN Mul(s1, 6) ELSE s1
        d3 == ~Truthy(Prop(aiSystem, "performanceMonitoring"))
        c3 == IF d3 THEN Append(c2, Issue("warning", "Performance monitoring not implemented"))
                    ELSE c2
        s3 == IF d3 THEN Mul(s2, 9) ELSE s2
    IN  [ score  |-> Max(s3, 0),
          checks |-> c3,
          status |-> IF s3 >= 800 THEN "pass" ELSE IF s3 >= 600 THEN "warning" ELSE "fail" ]

\* checkAccountability without the auditTrail check
checkAccountabilityNoAudit(aiSystem) ==
    LET d1 == ~Truthy(Prop(aiSystem, "responsibilityMatrix"))
        c1 == IF d1 THEN <<Issue("error", "Responsibility matrix not defined")>>
                    ELSE <<>>
        s1 == IF d1 THEN Mul(1000, 6) ELSE 1000
        d3 == ~Truthy(Prop(aiSystem, "incidentResponse"))
        c3 == IF d3 THEN Append(c1, Issue("warning", "Incident response procedures not defined"))
                    ELSE c1
        s3 == IF d3 THEN Mul(s1, 8) ELSE s1
    IN  [ score  |-> Max(s3, 0),
          checks |-> c3,
          status |-> IF s3 >= 800 THEN "pass" ELSE IF s3 >= 600 THEN "warning" ELSE "fail" ]

\* checkAccountability with a strict comparison for 'pass'
checkAccountabilityStrict(aiSystem) ==
    LET d1 == ~Truthy(Prop(aiSystem, "responsibilityMatrix"))
        c1 == IF d1 THEN <<Issue("error", "Responsibility matrix not defined")>>
                    ELSE <<>>
        s1 == IF d1 THEN Mul(1000, 6) ELSE 1000
        d2 == \/ ~Truthy(Prop(aiSystem, "auditTrail"))
              \/ ~Enabled(Prop(aiSystem, "auditTrail"))
        c2 == IF d2 THEN Append(c1, Issue("error", "Audit trail not enabled"))
                    ELSE c1
        s2 == IF d2 THEN Mul(s1, 5) ELSE s1
        d3 == ~Truthy(Prop(aiSystem, "incidentResponse"))
        c3 == IF d3 THEN Append(c2, Issue("warning", "Incident response procedures not defined"))
                    ELSE c2
        s3 == IF d3 THEN Mul(s2, 8) ELSE s2
    IN  [ score  |-> Max(s3, 0),
          checks |-> c3,
          status |-> IF s3 > 800 THEN "pass" ELSE IF s3 >= 600 THEN "warning" ELSE "fail" ]

checkAccountability(aiSystem) ==
    LET d1 == ~Truthy(Prop(aiSystem, "responsibilityMatrix"))
        c1 == IF d1 THEN <<Issue("error", "Responsibility matrix not defined")>>
                    ELSE <<>>
        s1 == IF d1 THEN Mul(1000, 6) ELSE 1000
        d2 == \/ ~Truthy(Prop(aiSystem, "auditTrail"))
              \/ ~Enabled(Prop(aiSystem, "auditTrail"))
        c2 == IF d2 THEN Append(c1, Issue("error", "Audit trail not enabled"))
                    ELSE c1
        s2 == IF d2 THEN Mul(s1, 5) ELSE s1
        d3 == ~Truthy(Prop(aiSystem, "incidentResponse"))
        c3 == IF d3 THEN Append(c2, Issue("warning", "Incident response procedures not defined"))
                    ELSE c2
        s3 == IF d3 THEN Mul(s2, 8) ELSE s2
    IN  [ score  |-> Max(s3, 0),
          checks |-> c3,
          status |-> IF s3 >= 800 THEN "pass" ELSE IF s3 >= 600 THEN "warning" ELSE "fail" ]

(***************************************************************************)
(* performSafetyChecks: the seven checks, keyed in this order.  A truthy   *)
(* context.regulatory calls this.checkRegulatoryCompliance, which the      *)
(* class does not define: the call throws a TypeError.                     *)
(***************************************************************************)
Categories ==
    << "ethicalGuidelines", "dataPrivacy", "bias", "transparency",
       "humanControl", "robustness", "accountability" >>

CategorySet == { Categories[i] : i \in 1..Len(Categories) }

Returned(v) == [threw |-> FALSE, value |-> v]

Thrown(e) == [threw |-> TRUE, value |-> e]

performSafetyChecks(aiSystem, context) ==
    LET checks ==
            [ c \in CategorySet |->
                CASE c = "ethicalGuidelines" -> checkEthicalGuidelines(aiSystem)
                  [] c = "dataPrivacy"       -> checkDataPrivacy(aiSystem)
                  [] c = "bias"              -> checkBias(aiSystem)
                  [] c = "transparency"      -> checkTransparency(aiSystem)
                  [] c = "humanControl"      -> checkHumanControl(aiSystem)
                  [] c = "robustness"        -> checkRobustness(aiSystem)
                  [] c = "accountability"    -> checkAccountability(aiSystem) ]
    IN  IF Truthy(context.regulatory)
        THEN Thrown("TypeError")
        ELSE Returned(checks)

(***************************************************************************)
(* calculateComplianceScore: the weights in hundredths, visited in the     *)
(* order of the weights object; a category absent from safetyChecks adds   *)
(* neither score nor weight.                                               *)
(***************************************************************************)
Weights ==
    << [check |-> "ethicalGuidelines", weight |-> 20],
       [check |-> "dataPrivacy",       weight |-> 15],
       [check |-> "bias",              weight |-> 15],
       [check |-> "transparency",      weight |-> 15],
       [check |-> "humanControl",      weight |-> 20],
       [check |-> "robustness",        weight |-> 10],
       [check |-> "accountability",    weight |-> 5] >>

RECURSIVE WeightedTotals(_, _, _)
WeightedTotals(safetyChecks, i, acc) ==
    IF i > Len(Weights) THEN acc
    ELSE LET e == Weights[i]
         IN  IF e.check \in DOMAIN safetyChecks
             THEN WeightedTotals(safetyChecks, i + 1,
                      [ totalScore  |-> acc.totalScore + safetyChecks[e.check].score * e.weight,
                        totalWeight |-> acc.totalWeight + e.weight ])
             ELSE WeightedTotals(safetyChecks, i + 1, acc)

\* calculateComplianceScore that does not divide by the weights present
calculateComplianceScoreUnnormalized(safetyChecks) ==
    LET t == WeightedTotals(safetyChecks, 1, [totalScore |-> 0, totalWeight |-> 0])
    IN  Rat(t.totalScore, 100000)

calculateComplianceScore(safetyChecks) ==
    LET t == WeightedTotals(safetyChecks, 1, [totalScore |-> 0, totalWeight |-> 0])
    IN  IF t.totalWeight > 0
        THEN Rat(t.totalScore, t.totalWeight * 1000)
        ELSE Rat(0, 1)

(***************************************************************************)
(* assessRisk                                                              *)
(***************************************************************************)
\* Object.values / Object.entries of safetyChecks: its keys in insertion order
Keys(safetyChecks) == SelectSeq(Categories, LAMBDA c : c \in DOMAIN safetyChecks)

\* arr.filter(c => c.type === type)
FilterType(checks, type) == SelectSeq(checks, LAMBDA c : c.type = type)

RECURSIVE CountWarnings(_, _)
CountWarnings(safetyChecks, keys) ==
    IF keys = <<>> THEN 0
    ELSE Len(FilterType(safetyChecks[Head(keys)].checks, "warning"))
            + CountWarnings(safetyChecks, Tail(keys))

\* assessRisk with the thresholds of 'high' included: >= 2 and >= 5
assessRiskInclusive(aiSystem, safetyChecks) ==
    LET criticalFailures ==
            Len(SelectSeq(Keys(safetyChecks),
                    LAMBDA k : /\ safetyChecks[k].status = "fail"
                               /\ \E j \in 1..Len(safetyChecks[k].checks) :
                                      safetyChecks[k].checks[j].type = "error"))
        warnings == CountWarnings(safetyChecks, Keys(safetyChecks))
        riskLevel == IF criticalFailures >= 2 \/ warnings >= 5 THEN "high"
                     ELSE IF criticalFailures > 0 \/ warnings > 2 THEN "medium"
                     ELSE "low"
    IN  [ level |-> riskLevel,
          criticalFailures |-> criticalFailures,
          warnings |-> warnings ]

\* assessRisk counting every category that holds an error, whatever its status
assessRiskAnyError(aiSystem, safetyChecks) ==
    LET criticalFailures ==
            Len(SelectSeq(Keys(safetyChecks),
                    LAMBDA k : \E j \in 1..Len(safetyChecks[k].checks) :
                                   safetyChecks[k].checks[j].type = "error"))
        warnings == CountWarnings(safetyChecks, Keys(safetyChecks))
        riskLevel == IF criticalFailures > 2 \/ warnings > 5 THEN "high"
                     ELSE IF criticalFailures > 0 \/ warnings > 2 THEN "medium"
                     ELSE "low"
    IN  [ level |-> riskLevel,
          criticalFailures |-> criticalFailures,
          warnings |-> warnings ]

\* assessRisk with 'high' from the first critical failure on
assessRiskEager(aiSystem, safetyChecks) ==
    LET criticalFailures ==
            Len(SelectSeq(Keys(safetyChecks),
                    LAMBDA k : /\ safetyChecks[k].status = "fail"
                               /\ \E j \in 1..Len(safetyChecks[k].checks) :
                                      safetyChecks[k].checks[j].type = "error"))
        warnings == CountWarnings(safetyChecks, Keys(safetyChecks))
        riskLevel == IF criticalFailures > 0 \/ warnings > 5 THEN "high"
                     ELSE IF criticalFailures > 0 \/ warnings > 2 THEN "medium"
                     ELSE "low"
    IN  [ level |-> riskLevel,
          criticalFailures |-> criticalFailures,
          warnings |-> warnings ]

assessRisk(aiSystem, safetyChecks) ==
    LET criticalFailures ==
            Len(SelectSeq(Keys(safetyChecks),
                    LAMBDA k : /\ safetyChecks[k].status = "fail"
                               /\ \E j \in 1..Len(safetyChecks[k].checks) :
                                      safetyChecks[k].checks[j].type = "error"))
        warnings == CountWarnings(safetyChecks, Keys(safetyChecks))
        riskLevel == IF criticalFailures > 2 \/ warnings > 5 THEN "high"
                     ELSE IF criticalFailures > 0 \/ warnings > 2 THEN "medium"
                     ELSE "low"
    IN  [ level |-> riskLevel,
          criticalFailures |-> criticalFailures,
          warnings |-> warnings ]

(***************************************************************************)
(* generateRecommendations and getRecommendedAction                        *)
(***************************************************************************)
ActionMap ==
    { <<"ethicalGuidelines", "No ethical boundaries defined",
            "Define clear ethical boundaries and prohibited use cases">>,
      <<"ethicalGuidelines", "Harm prevention mechanisms not implemented",
            "Implement content filtering and harm prevention systems">>,
      <<"ethicalGuidelines", "Human values alignment not documented",
            "Document human values alignment methodology">>,
      <<"dataPrivacy", "Data encryption not enabled",
            "Enable end-to-end encryption for all data processing">>,
      <<"dataPrivacy", "User consent management not implemented",
            "Implement comprehensive consent management system">>,
      <<"dataPrivacy", "Data minimization principles not applied",
            "Review and minimize data collection requirements">>,
      <<"humanControl", "Human oversight not implemented",
            "Implement mandatory human oversight for critical decisions">>,
      <<"humanControl", "Manual override not available",
            "Add manual override capabilities for all automated decisions">> }

getRecommendedAction(category, issue) ==
    IF \E e \in ActionMap : e[1] = category /\ e[2] = issue
    THEN (CHOOSE e \in ActionMap : e[1] = category /\ e[2] = issue)[3]
    ELSE "Review and address this safety concern"

\* the recommendations of one category's issues of one type
RecommendationsOf(priority, category, issues) ==
    [ j \in 1..Len(issues) |->
        [ priority |-> priority,
          category |-> category,
          issue    |-> issues[j].message,
          action   |-> getRecommendedAction(category, issues[j].message) ] ]

\* the first pass without the test of the category's status
RECURSIVE HighPassAnyStatus(_, _)
HighPassAnyStatus(safetyChecks, keys) ==
    IF keys = <<>> THEN <<>>
    ELSE RecommendationsOf("high", Head(keys),
                           FilterType(safetyChecks[Head(keys)].checks, "error"))
         \o HighPassAnyStatus(safetyChecks, Tail(keys))

\* the first pass taking every category that does not pass
RECURSIVE HighPassBelowPass(_, _)
HighPassBelowPass(safetyChecks, keys) ==
    IF keys = <<>> THEN <<>>
    ELSE LET check == safetyChecks[Head(keys)]
         IN  (IF check.status # "pass"
              THEN RecommendationsOf("high", Head(keys), FilterType(check.checks, "error"))
              ELSE <<>>)
             \o HighPassBelowPass(safetyChecks, Tail(keys))

RECURSIVE HighPass(_, _)
HighPass(safetyChecks, keys) ==
    IF keys = <<>> THEN <<>>
    ELSE LET check == safetyChecks[Head(keys)]
         IN  (IF check.status = "fail"
              THEN RecommendationsOf("high", Head(keys), FilterType(check.checks, "error"))
              ELSE <<>>)
             \o HighPass(safetyChecks, Tail(keys))

RECURSIVE MediumPass(_, _)
MediumPass(safetyChecks, keys) ==
    IF keys = <<>> THEN <<>>
    ELSE RecommendationsOf("medium", Head(keys),
                           FilterType(safetyChecks[Head(keys)].checks, "warning"))
         \o MediumPass(safetyChecks, Tail(keys))

\* both kinds of recommendation emitted category by category, in one pass
RECURSIVE OnePass(_, _)
OnePass(safetyChecks, keys) ==
    IF keys = <<>> THEN <<>>
    ELSE LET check == safetyChecks[Head(keys)]
         IN  (IF check.status = "fail"
              THEN RecommendationsOf("high", Head(keys), FilterType(check.checks, "error"))
              ELSE <<>>)
             \o RecommendationsOf("medium", Head(keys), FilterType(check.checks, "warning"))
             \o OnePass(safetyChecks, Tail(keys))

generateRecommendationsOnePass(safetyChecks, riskAssessment) ==
    OnePass(safetyChecks, Keys(safetyChecks))

generateRecommendations(safetyChecks, riskAssessment) ==
    HighPass(safetyChecks, Keys(safetyChecks))
        \o MediumPass(safetyChecks, Keys(safetyChecks))

(***************************************************************************)
(* Bounds of the exploration.                                              *)
(***************************************************************************)
\* validateSafety calls made in one run (all of them may be in flight at once)
MaxValidations == 2

\* direct logAuditEvent calls in one run
MaxDirectAppends == 1

\* getAuditLog calls in one run
MaxReads == 1

\* validateSafety calls in one run of the engine with a reader
MaxObservedCalls == 1

\* validateSafety calls in one run of the engine without auditing
MaxRepeats == 3

\* validateSafety calls on the subject in one run of the checks
MaxCheckedCalls == 1

\* events already in the audit log of the long-running engine of Init
PreFill == 999

\* categories in which a descriptor of the checks' universe may differ
\* from its baseline
MaxDevCategories == 1

\* validation events handed to one direct call of calculateComplianceTrends
MaxTrendEvents == 2

\* the last day of a run in which the days pass
MaxDays == 2

\* queries in one batchAnalyze request
MaxQueries == 7

(***************************************************************************)
(* OracleController.batchAnalyze: the queries are taken three at a time;   *)
(* each group is mapped to promises that call processQuery and turn its    *)
(* outcome into an entry, and the handler awaits them all before it        *)
(* collects the entries and goes on.                                       *)
(***************************************************************************)
concurrencyLimit == 3

\* queries.slice(i, i + concurrencyLimit), as positions of queries
BatchSlice(queries, i) ==
    { k \in DOMAIN queries : i < k /\ k <= i + concurrencyLimit }

\* the promise of the map callback while processQuery is in flight
Pending == [state |-> "pending", id |-> 0, status |-> "none"]

\* the map callback letting a rejection of processQuery through
mapCallbackRethrow(queryItem, outcome) ==
    IF outcome = "resolved"
    THEN [state |-> "fulfilled", id |-> queryItem.id, status |-> "success"]
    ELSE [state |-> "rejected",  id |-> queryItem.id, status |-> "none"]

\* the map callback after its await: an entry either way
mapCallback(queryItem, outcome) ==
    IF outcome = "resolved"
    THEN [state |-> "fulfilled", id |-> queryItem.id, status |-> "success"]
    ELSE [state |-> "fulfilled", id |-> queryItem.id, status |-> "error"]

\* the entries of a joined group with the given status, in group order
RECURSIVE BatchFilter(_, _, _, _)
BatchFilter(batchPromises, lo, hi, status) ==
    IF lo > hi
    THEN << >>
    ELSE (IF batchPromises[lo].status = status
          THEN << [id |-> batchPromises[lo].id, status |-> status] >>
          ELSE << >>)
         \o BatchFilter(batchPromises, lo + 1, hi, status)

\* the for loop from its test to the next await or to the response
BatchLoop(b) ==
    IF b.i < Len(b.queries)
    THEN [b EXCEPT !.pc = "awaiting",
                   !.batchPromises = [ k \in BatchSlice(b.queries, b.i) |-> Pending ]]
    ELSE [b EXCEPT !.pc = "responded",
                   !.batchPromises = [ k \in {} |-> Pending ],
                   !.response = [ code       |-> 200,
                                  total      |-> Len(b.queries),
                                  successful |-> Len(b.results),
                                  failed     |-> Len(b.errors) ]]

NoResponse == [code |-> 0, total |-> 0, successful |-> 0, failed |-> 0]

\* a request with the given queries, not yet handled
Request(queries) ==
    [ pc            |-> "received",
      queries       |-> queries,
      i             |-> 0,
      batchPromises |-> [ k \in {} |-> Pending ],
      results       |-> << >>,
      errors        |-> << >>,
      response      |-> NoResponse ]

\* no request
NoBatch == [Request(<< >>) EXCEPT !.pc = "none"]

(***************************************************************************)
(* The engine's state.                                                     *)
(***************************************************************************)
VARIABLES
    config,      \* this.config
    heap,        \* the live arrays: reference -> sequence of audit entries
    auditLog,    \* this.auditLog, a reference into heap
    calls,       \* the validateSafety calls made, in call order: position,
                 \* arguments, locals and outcome of each
    now,         \* what new Date() returns during the run
    uuidCount,   \* uuids generated so far; uuidv4() returns the next one
    reader,      \* the array a caller got from getAuditLog, and its filters
    reads,       \* getAuditLog calls so far
    subject,     \* the descriptor and context a run of the checks examines
    aggregated,  \* the last direct call of calculateComplianceScore:
                 \* its argument and what it returned
    appended,    \* history: every entry pushed to the audit log, in order
    started,     \* validateSafety calls started so far
    direct,      \* direct logAuditEvent calls so far
    dashboard,   \* the last getComplianceDashboard call: its filters, what
                 \* it returned, and the calls so far
    trended,     \* a direct call of calculateComplianceTrends: its argument,
                 \* whether it was made and what it returned
    peer,        \* a second engine of the same process: its config, its
                 \* auditLog (a reference into heap) and its validateSafety
                 \* calls
    batch        \* a batchAnalyze request: its queries, its position, its
                 \* locals and its response

vars == << config, heap, auditLog, calls, now, uuidCount, reader, reads,
           subject, aggregated, appended, started, direct, dashboard, trended,
           peer, batch >>

\* the variables that no operation of the engine itself changes
apart == << trended, peer, batch >>

(***************************************************************************)
(* constructor: config.x || env || default, then overridden by the spread  *)
(* of config (a key present in config wins, even when falsy).              *)
(***************************************************************************)
\* truthiness of a number: 0 and NaN are falsy
NumTruthy(x) == x.den # 0 /\ x.num # 0

Has(obj, key) == key \in DOMAIN obj

DefaultComplianceThreshold == Rat(95, 100)

MaxAuditEvents == 1000

constructor(cfg, env) ==
    LET base ==
            [ complianceThreshold |->
                  IF Has(cfg, "complianceThreshold") /\ NumTruthy(cfg.complianceThreshold)
                  THEN cfg.complianceThreshold
                  ELSE IF NumTruthy(env.VOIDGUARD_COMPLIANCE_THRESHOLD)
                       THEN env.VOIDGUARD_COMPLIANCE_THRESHOLD
                       ELSE DefaultComplianceThreshold,
              auditEnabled |->
                  IF Has(cfg, "auditEnabled") /\ cfg.auditEnabled
                  THEN TRUE
                  ELSE env.VOIDGUARD_AUDIT_ENABLED = "true",
              transparencyLevel |->
                  IF Has(cfg, "transparencyLevel") /\ Truthy(cfg.transparencyLevel)
                  THEN cfg.transparencyLevel
                  ELSE IF Truthy(env.VOIDGUARD_TRANSPARENCY_LEVEL)
                       THEN env.VOIDGUARD_TRANSPARENCY_LEVEL
                       ELSE "full" ]
    IN  [ k \in DOMAIN base |-> IF Has(cfg, k) THEN cfg[k] ELSE base[k] ]

(***************************************************************************)
(* Arrays live in a heap so that sharing is visible: push changes an       *)
(* array in place, the spread [...a], filter and slice make a new one.     *)
(***************************************************************************)
NoRef == 0

NewRef(h) == CHOOSE r \in 1..(Cardinality(DOMAIN h) + 1) : r \notin DOMAIN h

Alloc(h, seq) == h @@ (NewRef(h) :> seq)

Push(h, r, e) == [h EXCEPT ![r] = Append(h[r], e)]

\* arr.slice(-n)
SliceLast(seq, n) ==
    IF Len(seq) <= n THEN seq ELSE SubSeq(seq, Len(seq) - n + 1, Len(seq))

\* arrays no longer referenced are collected
Collect(h, roots) == [ r \in (DOMAIN h) \cap roots |-> h[r] ]

(***************************************************************************)
(* new VoidGuardSafetyEngine(config): the config is computed and           *)
(* this.auditLog = [] makes a new, empty array.                            *)
(***************************************************************************)
NoHeap == [ r \in {} |-> << >> ]

\* the constructor taking auditLog from a default that every engine shares
newEngineSharedLog(h, cfg, env) ==
    IF DOMAIN h = {}
    THEN [ heap   |-> Alloc(h, << >>),
           engine |-> [ config |-> constructor(cfg, env), auditLog |-> NewRef(h), calls |-> << >> ] ]
    ELSE [ heap   |-> h,
           engine |-> [ config   |-> constructor(cfg, env),
                        auditLog |-> CHOOSE r \in DOMAIN h : TRUE,
                        calls    |-> << >> ] ]

newEngine(h, cfg, env) ==
    [ heap   |-> Alloc(h, << >>),
      engine |-> [ config |-> constructor(cfg, env), auditLog |-> NewRef(h), calls |-> << >> ] ]

(***************************************************************************)
(* logAuditEvent: push {...event, id, timestamp}, then keep the last 1000. *)
(***************************************************************************)
\* an absent (falsy) timestamp, date or validationId; times start at 1
NoTime == 0

NoResult == [status |-> "undefined", score |-> NaN, riskLevel |-> "undefined"]

\* logAuditEvent stamping every entry with the time of the append
AuditEntryRestamped(event, id, clock) ==
    [ type         |-> event.type,
      validationId |-> event.validationId,
      result       |-> event.result,
      id           |-> id,
      timestamp    |-> clock ]

AuditEntry(event, id, clock) ==
    [ type         |-> event.type,
      validationId |-> event.validationId,
      result       |-> event.result,
      id           |-> id,
      timestamp    |-> IF event.timestamp # NoTime THEN event.timestamp ELSE clock ]

\* logAuditEvent without the truncation
logAuditEventKeepAll(h, log, event, id, clock) ==
    [ heap |-> Push(h, log, AuditEntry(event, id, clock)), auditLog |-> log ]

\* logAuditEvent truncating with slice(0, 1000): the newest entry is dropped
logAuditEventKeepFirst(h, log, event, id, clock) ==
    LET h1 == Push(h, log, AuditEntry(event, id, clock))
    IN  IF Len(h1[log]) > MaxAuditEvents
        THEN [ heap     |-> Alloc(h1, SubSeq(h1[log], 1, MaxAuditEvents)),
               auditLog |-> NewRef(h1) ]
        ELSE [ heap |-> h1, auditLog |-> log ]

\* logAuditEvent refusing the write when the log is full
logAuditEventRejectWhenFull(h, log, event, id, clock) ==
    IF Len(h[log]) >= MaxAuditEvents
    THEN [ heap |-> h, auditLog |-> log ]
    ELSE [ heap |-> Push(h, log, AuditEntry(event, id, clock)), auditLog |-> log ]

\* logAuditEvent pushing the entry twice
logAuditEventTwice(h, log, event, id, clock) ==
    LET h1 == Push(Push(h, log, AuditEntry(event, id, clock)),
                   log, AuditEntry(event, id, clock))
    IN  IF Len(h1[log]) > MaxAuditEvents
        THEN [ heap     |-> Alloc(h1, SliceLast(h1[log], MaxAuditEvents)),
               auditLog |-> NewRef(h1) ]
        ELSE [ heap |-> h1, auditLog |-> log ]

logAuditEvent(h, log, event, id, clock) ==
    LET h1 == Push(h, log, AuditEntry(event, id, clock))
    IN  IF Len(h1[log]) > MaxAuditEvents
        THEN [ heap     |-> Alloc(h1, SliceLast(h1[log], MaxAuditEvents)),
               auditLog |-> NewRef(h1) ]
        ELSE [ heap |-> h1, auditLog |-> log ]

(***************************************************************************)
(* getAuditLog: a copy of the log, filtered by type and inclusive dates.   *)
(***************************************************************************)
NoFilters == [type |-> "undefined", startDate |-> NoTime, endDate |-> NoTime]

\* getAuditLog handing out this.auditLog itself when nothing is filtered
getAuditLogLive(h, log, filters) ==
    IF filters = NoFilters
    THEN [ heap |-> h, log |-> log ]
    ELSE [ heap |-> Alloc(h, SelectSeq(h[log], LAMBDA e :
                        /\ filters.type # "undefined" => e.type = filters.type
                        /\ filters.startDate # NoTime => e.timestamp >= filters.startDate
                        /\ filters.endDate # NoTime => e.timestamp <= filters.endDate)),
           log  |-> NewRef(h) ]

\* getAuditLog comparing the start date with > instead of >=
getAuditLogAfterStart(h, log, filters) ==
    LET l0 == h[log]
        l1 == IF filters.type # "undefined"
              THEN SelectSeq(l0, LAMBDA e : e.type = filters.type)
              ELSE l0
        l2 == IF filters.startDate # NoTime
              THEN SelectSeq(l1, LAMBDA e : e.timestamp > filters.startDate)
              ELSE l1
        l3 == IF filters.endDate # NoTime
              THEN SelectSeq(l2, LAMBDA e : e.timestamp <= filters.endDate)
              ELSE l2
    IN  [ heap |-> Alloc(h, l3), log |-> NewRef(h) ]

getAuditLog(h, log, filters) ==
    LET l0 == h[log]
        l1 == IF filters.type # "undefined"
              THEN SelectSeq(l0, LAMBDA e : e.type = filters.type)
              ELSE l0
        l2 == IF filters.startDate # NoTime
              THEN SelectSeq(l1, LAMBDA e : e.timestamp >= filters.startDate)
              ELSE l1
        l3 == IF filters.endDate # NoTime
              THEN SelectSeq(l2, LAMBDA e : e.timestamp <= filters.endDate)
              ELSE l2
    IN  [ heap |-> Alloc(h, l3), log |-> NewRef(h) ]

(***************************************************************************)
(* getHealthStatus: a fixed status and version, the time, a copy of the    *)
(* three config fields and the size of the audit log.                      *)
(***************************************************************************)
getHealthStatus(cfg, h, log, clock) ==
    [ status       |-> "healthy",
      timestamp    |-> clock,
      config       |-> [ complianceThreshold |-> cfg.complianceThreshold,
                         auditEnabled        |-> cfg.auditEnabled,
                         transparencyLevel   |-> cfg.transparencyLevel ],
      auditLogSize |-> Len(h[log]),
      version      |-> "1.0.0" ]

(***************************************************************************)
(* getComplianceDashboard: the validations among the filtered audit log,   *)
(* how many there are and how many are compliant, their rate and mean      *)
(* score, the last ten of them and the trends.  Numbers that a division    *)
(* yields are fractions in lowest terms.                                   *)
(***************************************************************************)
\* a + b over a common denominator, not reduced; NaN when either side is NaN
RatAdd(a, b) ==
    IF a.den = 0 \/ b.den = 0
    THEN NaN
    ELSE IF a.den = b.den
         THEN [num |-> a.num + b.num, den |-> a.den]
         ELSE LET lcm == (a.den \div Gcd(a.den, b.den)) * b.den
              IN  [ num |-> a.num * (lcm \div a.den) + b.num * (lcm \div b.den),
                    den |-> lcm ]

\* a / n in lowest terms, for a count n > 0; NaN when a is NaN
RatDiv(a, n) == IF a.den = 0 THEN NaN ELSE Rat(a.num, a.den * n)

\* validations.reduce((sum, v) => sum + v.result.score, 0), over the
\* positions lo..hi; the sum is exact, so it is taken by halves
RECURSIVE SumScores(_, _, _)
SumScores(validations, lo, hi) ==
    IF lo > hi
    THEN Rat(0, 1)
    ELSE IF lo = hi
         THEN validations[lo].result.score
         ELSE LET mid == (lo + hi) \div 2
              IN  RatAdd(SumScores(validations, lo, mid), SumScores(validations, mid + 1, hi))

\* calculateComplianceTrends comparing with > instead of >=
calculateComplianceTrendsExclusive(validations, clock) ==
    LET last30Days == SelectSeq(validations, LAMBDA v : v.timestamp > clock - 30)
        last7Days  == SelectSeq(validations, LAMBDA v : v.timestamp > clock - 7)
    IN  [ last30Days         |-> Len(last30Days),
          last7Days          |-> Len(last7Days),
          avgScoreLast30Days |-> IF Len(last30Days) > 0
                                 THEN RatDiv(SumScores(last30Days, 1, Len(last30Days)),
                                             Len(last30Days))
                                 ELSE Rat(0, 1) ]

\* the clock counts days: the validations of the last 30 and the last 7
calculateComplianceTrends(validations, clock) ==
    LET last30Days == SelectSeq(validations, LAMBDA v : v.timestamp >= clock - 30)
        last7Days  == SelectSeq(validations, LAMBDA v : v.timestamp >= clock - 7)
    IN  [ last30Days         |-> Len(last30Days),
          last7Days          |-> Len(last7Days),
          avgScoreLast30Days |-> IF Len(last30Days) > 0
                                 THEN RatDiv(SumScores(last30Days, 1, Len(last30Days)),
                                             Len(last30Days))
                                 ELSE Rat(0, 1) ]

\* getComplianceDashboard reporting the size of the filtered log, with the
\* events of other types, as totalValidations
getComplianceDashboardAllEvents(h, log, filters, clock) ==
    LET got              == getAuditLog(h, log, filters)
        auditEvents      == got.heap[got.log]
        validations      == SelectSeq(auditEvents, LAMBDA event : event.type = "safety_validation")
        compliantSystems == Len(SelectSeq(validations, LAMBDA v : v.result.status = "compliant"))
        totalSystems     == Len(auditEvents)
        avgScore         == IF totalSystems > 0
                            THEN RatDiv(SumScores(validations, 1, Len(validations)), totalSystems)
                            ELSE Rat(0, 1)
    IN  [ summary |->
              [ totalValidations |-> totalSystems,
                compliantSystems |-> compliantSystems,
                complianceRate   |-> IF totalSystems > 0
                                     THEN Rat(compliantSystems, totalSystems)
                                     ELSE Rat(0, 1),
                averageScore     |-> avgScore ],
          recentValidations |-> SliceLast(validations, 10),
          trends            |-> calculateComplianceTrends(validations, clock) ]

getComplianceDashboard(h, log, filters, clock) ==
    LET got              == getAuditLog(h, log, filters)
        validations      == SelectSeq(got.heap[got.log],
                                LAMBDA event : event.type = "safety_validation")
        compliantSystems == Len(SelectSeq(validations, LAMBDA v : v.result.status = "compliant"))
        totalSystems     == Len(validations)
        avgScore         == IF totalSystems > 0
                            THEN RatDiv(SumScores(validations, 1, totalSystems), totalSystems)
                            ELSE Rat(0, 1)
    IN  [ summary |->
              [ totalValidations |-> totalSystems,
                compliantSystems |-> compliantSystems,
                complianceRate   |-> IF totalSystems > 0
                                     THEN Rat(compliantSystems, totalSystems)
                                     ELSE Rat(0, 1),
                averageScore     |-> avgScore ],
          recentValidations |-> SliceLast(validations, 10),
          trends            |-> calculateComplianceTrends(validations, clock) ]

\* calculateComplianceTrends not called yet
NoTrends ==
    [ validations |-> << >>,
      called      |-> FALSE,
      value       |-> calculateComplianceTrends(<< >>, 1) ]

\* no dashboard asked for yet
NoDashboard ==
    [ calls   |-> 0,
      filters |-> NoFilters,
      value   |-> getComplianceDashboard((1 :> << >>), 1, NoFilters, 1) ]

(***************************************************************************)
(* validateSafety, the part after the await: score, risk, result, audit.   *)
(***************************************************************************)
\* validateSafety comparing with > instead of >=
ValidationResultStrict(cfg, validationId, timestamp, safetyChecks, aiSystem) ==
    LET complianceScore == calculateComplianceScore(safetyChecks)
        riskAssessment  == assessRisk(aiSystem, safetyChecks)
    IN  [ validationId    |-> validationId,
          timestamp       |-> timestamp,
          safetyStatus    |-> IF /\ RatGE(complianceScore, cfg.complianceThreshold)
                                 /\ ~RatGE(cfg.complianceThreshold, complianceScore)
                              THEN "compliant" ELSE "non-compliant",
          complianceScore |-> complianceScore,
          safetyChecks    |-> safetyChecks,
          riskAssessment  |-> riskAssessment,
          recommendations |-> generateRecommendations(safetyChecks, riskAssessment),
          metadata        |-> [ validatorVersion  |-> "1.0.0",
                                transparencyLevel |-> cfg.transparencyLevel,
                                auditEnabled      |-> cfg.auditEnabled ] ]

ValidationResult(cfg, validationId, timestamp, safetyChecks, aiSystem) ==
    LET complianceScore == calculateComplianceScore(safetyChecks)
        riskAssessment  == assessRisk(aiSystem, safetyChecks)
    IN  [ validationId    |-> validationId,
          timestamp       |-> timestamp,
          safetyStatus    |-> IF RatGE(complianceScore, cfg.complianceThreshold)
                              THEN "compliant" ELSE "non-compliant",
          complianceScore |-> complianceScore,
          safetyChecks    |-> safetyChecks,
          riskAssessment  |-> riskAssessment,
          recommendations |-> generateRecommendations(safetyChecks, riskAssessment),
          metadata        |-> [ validatorVersion  |-> "1.0.0",
                                transparencyLevel |-> cfg.transparencyLevel,
                                auditEnabled      |-> cfg.auditEnabled ] ]

ValidationEvent(result) ==
    [ type         |-> "safety_validation",
      validationId |-> result.validationId,
      result       |-> [ status    |-> result.safetyStatus,
                         score     |-> result.complianceScore,
                         riskLevel |-> result.riskAssessment.level ],
      timestamp    |-> result.timestamp ]

(***************************************************************************)
(* The descriptors, configurations and filters the exploration draws.      *)
(***************************************************************************)
EnabledFlags == { "encryption", "explainability", "humanOversight", "auditTrail" }

ConductedFlags == { "biasTesting", "adversarialTesting" }

\* the three values a flag takes: absent, present but deficient, in order
VariantOf(flag, i) ==
    IF i = 1 THEN "undefined"
    ELSE IF flag = "ethicalBoundaries" THEN (IF i = 2 THEN "[]" ELSE "[x]")
    ELSE IF flag \in EnabledFlags THEN (IF i = 2 THEN "{enabled:false}" ELSE "{enabled:true}")
    ELSE IF flag \in ConductedFlags THEN (IF i = 2 THEN "{conducted:false}" ELSE "{conducted:true}")
    ELSE (IF i = 2 THEN "false" ELSE "true")

\* all flags present and enabled
CompliantSystem ==
    [ k \in DescriptorKeys |-> IF k = "typeof" THEN "object" ELSE VariantOf(k, 3) ]

\* the object {}
EmptySystem ==
    [ k \in DescriptorKeys |-> IF k = "typeof" THEN "object" ELSE "undefined" ]

NonObject(t) ==
    [ k \in DescriptorKeys |-> IF k = "typeof" THEN t ELSE "undefined" ]

\* the three flags of the i-th category
FlagsOf(i) == { Flags[3 * (i - 1) + j] : j \in 1..3 }

FlagsOfAll(S) == UNION { FlagsOf(i) : i \in S }

\* the descriptors that differ from a baseline in at most n categories,
\* with every combination of values inside those, and a number
SystemsWithin(n) ==
    { [ k \in DescriptorKeys |-> IF k \in DOMAIN a THEN VariantOf(k, a[k]) ELSE b[k] ] :
        <<b, a>> \in
            UNION { {b0} \X [FlagsOfAll(S) -> 1..3] :
                      <<b0, S>> \in { CompliantSystem, EmptySystem }
                                      \X { T \in SUBSET (1..Len(Categories)) :
                                               Cardinality(T) <= n } } }
        \cup { NonObject("number") }

\* the subjects made of the descriptors of a set: each of them without a
\* regulatory context, and the descriptors that are no objects
SubjectsOf(systems) ==
    (systems \X { [regulatory |-> "undefined"] })
        \cup { << CompliantSystem, [regulatory |-> "true"] >>,
               << NonObject("null"), [regulatory |-> "undefined"] >>,
               << NonObject("undefined"), [regulatory |-> "undefined"] >> }

\* the subjects validated by the engine of the default configuration
CheckedSubjects == SubjectsOf(SystemsWithin(MaxDevCategories))

\* the subjects validated under every configuration: one category at a time
VerdictSubjects == SubjectsOf(SystemsWithin(1))

EngineInputs ==
    { << CompliantSystem, [regulatory |-> "undefined"] >>,
      << EmptySystem,     [regulatory |-> "undefined"] >>,
      << CompliantSystem, [regulatory |-> "true"] >> }

EnvUnset ==
    [ VOIDGUARD_COMPLIANCE_THRESHOLD |-> NaN,
      VOIDGUARD_AUDIT_ENABLED        |-> "undefined",
      VOIDGUARD_TRANSPARENCY_LEVEL   |-> "undefined" ]

EnvSet ==
    [ VOIDGUARD_COMPLIANCE_THRESHOLD |-> Rat(99, 100),
      VOIDGUARD_AUDIT_ENABLED        |-> "true",
      VOIDGUARD_TRANSPARENCY_LEVEL   |-> "summary" ]

\* new VoidGuardSafetyEngine() takes config = {}
NoConfig == [ k \in {} |-> TRUE ]

EngineSetups ==
    { [cfg |-> NoConfig,                  env |-> EnvUnset],
      [cfg |-> NoConfig,                  env |-> EnvSet],
      [cfg |-> [auditEnabled |-> TRUE],   env |-> EnvUnset],
      [cfg |-> [auditEnabled |-> FALSE],  env |-> EnvSet] }

CheckSetups ==
    { [cfg |-> NoConfig,                             env |-> EnvUnset],
      [cfg |-> NoConfig,                             env |-> EnvSet],
      [cfg |-> [complianceThreshold |-> Rat(1, 1)],    env |-> EnvUnset],
      [cfg |-> [complianceThreshold |-> Rat(0, 1)],    env |-> EnvSet],
      [cfg |-> [complianceThreshold |-> Rat(96, 100)], env |-> EnvUnset] }

AuditFilters ==
    { NoFilters,
      [type |-> "safety_validation", startDate |-> 1, endDate |-> 1],
      [type |-> "undefined",         startDate |-> 2, endDate |-> NoTime] }

(***************************************************************************)
(* Initial states: a freshly constructed engine at time 1, or (auditing    *)
(* on) the same engine at time 2, after PreFill validations of the         *)
(* compliant descriptor made at time 1, which brings the capacity of the   *)
(* audit log within reach.                                                 *)
(***************************************************************************)
NoReader == [ref |-> NoRef, filters |-> NoFilters, edits |-> 0]

PreFilled(n, cfg) ==
    [ i \in 1..n |->
        AuditEntry(
            ValidationEvent(
                ValidationResult(cfg, 2 * i - 1, 1,
                    performSafetyChecks(CompliantSystem, [regulatory |-> "undefined"]).value,
                    CompliantSystem)),
            2 * i, 1) ]

NoAggregate == [safetyChecks |-> [c \in {} |-> 0], score |-> NaN]

\* the process has no second engine
NoPeer == [ config |-> constructor(NoConfig, EnvUnset), auditLog |-> NoRef, calls |-> << >> ]

InitWith(setups, fills, subjects) ==
    \E setup \in setups, n \in fills, subj \in subjects :
        /\ subject = subj
        /\ aggregated = NoAggregate
        /\ config = constructor(setup.cfg, setup.env)
        /\ n > 0 => config.auditEnabled
        /\ heap = (1 :> PreFilled(n, config))
        /\ auditLog = 1
        /\ appended = PreFilled(n, config)
        /\ uuidCount = 2 * n
        /\ calls = << >>
        /\ now = IF n > 0 THEN 2 ELSE 1
        /\ reader = NoReader
        /\ reads = 0
        /\ started = 0
        /\ direct = 0
        /\ dashboard = NoDashboard
        /\ trended = NoTrends
        /\ peer = NoPeer
        /\ batch = NoBatch

\* the engine with auditing on by its config, after PreFill validations
LongRunSetups == { [cfg |-> [auditEnabled |-> TRUE], env |-> EnvUnset] }

NoSubject == << CompliantSystem, [regulatory |-> "undefined"] >>

Init ==
    \/ InitWith(EngineSetups, {0}, {NoSubject})
    \/ InitWith(LongRunSetups, {PreFill}, {NoSubject})

(***************************************************************************)
(* validateSafety(aiSystem, context), up to its await: the uuid and the    *)
(* timestamp are taken, aiSystem.id is read (a TypeError for null and      *)
(* undefined, outside the try), and performSafetyChecks has run.           *)
(***************************************************************************)
ValidateStart(aiSystem, context) ==
    /\ calls' = Append(calls,
                    [ pc           |-> IF Throws(aiSystem) THEN "rejected" ELSE "awaiting",
                      aiSystem     |-> aiSystem,
                      context      |-> context,
                      validationId |-> uuidCount + 1,
                      timestamp    |-> now,
                      safetyChecks |-> IF Throws(aiSystem) THEN Thrown("TypeError")
                                       ELSE performSafetyChecks(aiSystem, context),
                      result       |-> "none" ])
    /\ uuidCount' = uuidCount + 1
    /\ started' = started + 1
    /\ UNCHANGED << subject, aggregated, dashboard, config, heap, auditLog, now, reader, reads, appended, direct, apart >>

(***************************************************************************)
(* validateSafety after the await: a rejected performSafetyChecks is       *)
(* rethrown by the catch; otherwise the result is built, the audit event   *)
(* is logged when auditing is on, and the result is returned.              *)
(***************************************************************************)
\* validateSafety keeping the checks in a field of the engine that every
\* call overwrites: after the await a call reads those of the last call
\* started
ValidateResumeSharedChecks(c) ==
    /\ c \in DOMAIN calls
    /\ calls[c].pc = "awaiting"
    /\ LET last == calls[Len(calls)]
       IN  IF last.safetyChecks.threw
           THEN /\ calls' = [calls EXCEPT ![c].pc = "rejected"]
                /\ UNCHANGED << heap, auditLog, uuidCount, appended >>
           ELSE LET result == ValidationResult(config, calls[c].validationId,
                                  calls[c].timestamp, last.safetyChecks.value,
                                  last.aiSystem)
                    logged == logAuditEvent(heap, auditLog, ValidationEvent(result),
                                  uuidCount + 1, now)
                IN  /\ calls' = [calls EXCEPT ![c].pc = "resolved", ![c].result = result]
                    /\ IF config.auditEnabled
                       THEN /\ heap' = Collect(logged.heap, {logged.auditLog, reader.ref, peer.auditLog})
                            /\ auditLog' = logged.auditLog
                            /\ uuidCount' = uuidCount + 1
                            /\ appended' = Append(appended,
                                   AuditEntry(ValidationEvent(result), uuidCount + 1, now))
                       ELSE UNCHANGED << heap, auditLog, uuidCount, appended >>
    /\ UNCHANGED << subject, aggregated, dashboard, config, now, reader, reads, started, direct, apart >>

ValidateResume(c) ==
    /\ c \in DOMAIN calls
    /\ calls[c].pc = "awaiting"
    /\ IF calls[c].safetyChecks.threw
       THEN /\ calls' = [calls EXCEPT ![c].pc = "rejected"]
            /\ UNCHANGED << heap, auditLog, uuidCount, appended >>
       ELSE LET result == ValidationResult(config, calls[c].validationId,
                              calls[c].timestamp, calls[c].safetyChecks.value,
                              calls[c].aiSystem)
                logged == logAuditEvent(heap, auditLog, ValidationEvent(result),
                              uuidCount + 1, now)
            IN  /\ calls' = [calls EXCEPT ![c].pc = "resolved", ![c].result = result]
                /\ IF config.auditEnabled
                   THEN /\ heap' = Collect(logged.heap, {logged.auditLog, reader.ref, peer.auditLog})
                        /\ auditLog' = logged.auditLog
                        /\ uuidCount' = uuidCount + 1
                        /\ appended' = Append(appended,
                               AuditEntry(ValidationEvent(result), uuidCount + 1, now))
                   ELSE UNCHANGED << heap, auditLog, uuidCount, appended >>
    /\ UNCHANGED << subject, aggregated, dashboard, config, now, reader, reads, started, direct, apart >>

\* logAuditEvent called directly, with an event of another type and no timestamp
SystemEvent ==
    [type |-> "system_event", validationId |-> 0, result |-> NoResult, timestamp |-> NoTime]

DirectAppend ==
    /\ direct < MaxDirectAppends
    /\ LET logged == logAuditEvent(heap, auditLog, SystemEvent, uuidCount + 1, now)
       IN  /\ heap' = Collect(logged.heap, {logged.auditLog, reader.ref, peer.auditLog})
           /\ auditLog' = logged.auditLog
    /\ uuidCount' = uuidCount + 1
    /\ appended' = Append(appended, AuditEntry(SystemEvent, uuidCount + 1, now))
    /\ direct' = direct + 1
    /\ UNCHANGED << subject, aggregated, dashboard, config, calls, now, reader, reads, started, apart >>

(***************************************************************************)
(* A caller reads the audit log, and may then change the array it got.     *)
(***************************************************************************)
GetAuditLog(filters) ==
    /\ reader.ref = NoRef
    /\ reads < MaxReads
    /\ reads' = reads + 1
    /\ LET got == getAuditLog(heap, auditLog, filters)
       IN  /\ heap' = Collect(got.heap, {auditLog, got.log, peer.auditLog})
           /\ reader' = [ref |-> got.log, filters |-> filters, edits |-> 0]
    /\ UNCHANGED << subject, aggregated, dashboard, config, auditLog, calls, now, uuidCount, appended,
                    started, direct, apart >>

\* what a caller may push to the array it holds
Junk == [type |-> "junk", validationId |-> 0, result |-> NoResult, id |-> 0, timestamp |-> NoTime]

ReaderPush ==
    /\ reader.ref # NoRef
    /\ reader.edits = 0
    /\ heap' = Push(heap, reader.ref, Junk)
    /\ reader' = [reader EXCEPT !.edits = 1]
    /\ UNCHANGED << subject, aggregated, dashboard, config, auditLog, calls, now, uuidCount, reads, appended,
                    started, direct, apart >>

ReaderPop ==
    /\ reader.ref # NoRef
    /\ reader.edits = 0
    /\ heap[reader.ref] # << >>
    /\ heap' = [heap EXCEPT ![reader.ref] = SubSeq(@, 1, Len(@) - 1)]
    /\ reader' = [reader EXCEPT !.edits = 1]
    /\ UNCHANGED << subject, aggregated, dashboard, config, auditLog, calls, now, uuidCount, reads, appended,
                    started, direct, apart >>

ReaderDrop ==
    /\ reader.ref # NoRef
    /\ reader' = NoReader
    /\ heap' = Collect(heap, {auditLog, peer.auditLog})
    /\ UNCHANGED << subject, aggregated, dashboard, config, auditLog, calls, now, uuidCount, reads, appended,
                    started, direct, apart >>

(***************************************************************************)
(* A caller asks for the compliance dashboard; the arrays the call makes   *)
(* on its way are dropped when it returns.                                 *)
(***************************************************************************)
GetComplianceDashboard(filters) ==
    /\ dashboard.calls < MaxReads
    /\ dashboard' = [ calls   |-> dashboard.calls + 1,
                      filters |-> filters,
                      value   |-> getComplianceDashboard(heap, auditLog, filters, now) ]
    /\ UNCHANGED << subject, aggregated, config, heap, auditLog, calls, now, uuidCount,
                    reader, reads, appended, started, direct, apart >>

(***************************************************************************)
(* Spec: the engine under validations and direct appends.                  *)
(***************************************************************************)
Next ==
    \/ started < MaxValidations /\ \E in \in EngineInputs : ValidateStart(in[1], in[2])
    \/ \E c \in 1..MaxValidations : ValidateResume(c)
    \/ DirectAppend

Spec == Init /\ [][Next]_vars

(***************************************************************************)
(* SpecReader: the engine under validations of the compliant descriptor,   *)
(* direct appends and a caller of getAuditLog that keeps, changes and      *)
(* drops the array it was given.                                           *)
(***************************************************************************)
NextReader ==
    \/ started < MaxObservedCalls
           /\ ValidateStart(CompliantSystem, [regulatory |-> "undefined"])
    \/ \E c \in 1..MaxObservedCalls : ValidateResume(c)
    \/ DirectAppend
    \/ \E f \in AuditFilters : GetAuditLog(f)
    \/ ReaderPush
    \/ ReaderPop
    \/ ReaderDrop

SpecReader == Init /\ [][NextReader]_vars

(***************************************************************************)
(* SpecDashboard: a caller of getComplianceDashboard on an engine under    *)
(* direct appends and validations of one subject, drawn by Init: the       *)
(* compliant or the empty descriptor on a fresh engine, the empty one on   *)
(* the engine whose log already holds validations of the compliant one.    *)
(***************************************************************************)
DashboardSubjects ==
    { << CompliantSystem, [regulatory |-> "undefined"] >>,
      << EmptySystem,     [regulatory |-> "undefined"] >> }

InitDashboard ==
    \/ InitWith(EngineSetups, {0}, DashboardSubjects)
    \/ InitWith(LongRunSetups, {PreFill}, { << EmptySystem, [regulatory |-> "undefined"] >> })

NextDashboard ==
    \/ started < MaxObservedCalls /\ ValidateStart(subject[1], subject[2])
    \/ \E c \in 1..MaxObservedCalls : ValidateResume(c)
    \/ DirectAppend
    \/ \E f \in AuditFilters : GetComplianceDashboard(f)

SpecDashboard == InitDashboard /\ [][NextDashboard]_vars

(***************************************************************************)
(* SpecChecks: validateSafety applied to one subject, drawn by Init: any   *)
(* of the checked subjects on the engine of the default configuration, or  *)
(* a subject that deviates in one category on an engine of any of the      *)
(* configurations.                                                         *)
(***************************************************************************)
DefaultSetups == { [cfg |-> NoConfig, env |-> EnvUnset] }

InitChecks ==
    \/ InitWith(DefaultSetups, {0}, CheckedSubjects)
    \/ InitWith(CheckSetups, {0}, VerdictSubjects)

NextChecks ==
    \/ started < MaxCheckedCalls /\ ValidateStart(subject[1], subject[2])
    \/ \E c \in 1..MaxCheckedCalls : ValidateResume(c)

SpecChecks == InitChecks /\ [][NextChecks]_vars

(***************************************************************************)
(* SpecAggregate: calculateComplianceScore applied directly to the results *)
(* of any subset of the categories of a validated subject.                 *)
(***************************************************************************)
\* the descriptor with every flag of the i-th category absent
WithoutCategory(i) ==
    [ k \in DescriptorKeys |-> IF k \in FlagsOf(i) THEN "undefined" ELSE CompliantSystem[k] ]

AggregateSubjects ==
    ({ CompliantSystem, EmptySystem } \cup { WithoutCategory(i) : i \in 1..Len(Categories) })
        \X { [regulatory |-> "undefined"] }

Aggregate(present) ==
    /\ \E c \in DOMAIN calls :
          /\ calls[c].pc = "resolved"
          /\ LET safetyChecks == [ k \in present |-> calls[c].result.safetyChecks[k] ]
             IN  aggregated' = [ safetyChecks |-> safetyChecks,
                                 score        |-> calculateComplianceScore(safetyChecks) ]
    /\ UNCHANGED << subject, dashboard, config, heap, auditLog, calls, now, uuidCount, reader,
                    reads, appended, started, direct, apart >>

InitAggregate == InitWith(DefaultSetups, {0}, AggregateSubjects)

NextAggregate ==
    \/ started < MaxCheckedCalls /\ ValidateStart(subject[1], subject[2])
    \/ \E c \in 1..MaxCheckedCalls : ValidateResume(c)
    \/ \E present \in SUBSET CategorySet : Aggregate(present)

SpecAggregate == InitAggregate /\ [][NextAggregate]_vars

(***************************************************************************)
(* SpecProfiles: validateSafety applied to one subject of the default      *)
(* engine, drawn by Init from the descriptors in which every category has  *)
(* none of its flags, its warning flags, its error flags or all its flags  *)
(* absent, and from the descriptors without humanOversight, manualOverride *)
(* and auditTrail.                                                         *)
(***************************************************************************)
\* the flags whose absence a check reports with type 'warning'
WarningFlags ==
    { "ethicalBoundaries", "valuesAlignment", "dataMinimization",
      "fairnessMetrics", "datasetDiversity", "decisionLogging",
      "modelDocumentation", "escalationProcedures", "adversarialTesting",
      "performanceMonitoring", "incidentResponse" }

\* the object with the flags of D absent and every other flag present and
\* enabled
WithAbsent(D) ==
    [ k \in DescriptorKeys |->
        IF k = "typeof" THEN "object"
        ELSE IF k \in D THEN "undefined" ELSE VariantOf(k, 3) ]

\* the flags of the i-th category that its p-th profile leaves out
ProfileFlags(i, p) ==
    CASE p = 1 -> {}
      [] p = 2 -> FlagsOf(i) \cap WarningFlags
      [] p = 3 -> FlagsOf(i) \ WarningFlags
      [] p = 4 -> FlagsOf(i)

ProfileSystems ==
    { WithAbsent(UNION { ProfileFlags(i, p[i]) : i \in DOMAIN p }) :
        p \in [1..Len(Categories) -> 1..4] }

\* without humanOversight, manualOverride and auditTrail: the rest of
\* human control and accountability in every combination, the other
\* categories by profile
UncontrolledSystems ==
    { WithAbsent({"humanOversight", "manualOverride", "auditTrail"} \cup E
                 \cup UNION { ProfileFlags(i, p[i]) : i \in DOMAIN p }) :
        <<E, p>> \in (SUBSET {"escalationProcedures", "responsibilityMatrix",
                              "incidentResponse"})
                     \X [{1, 2, 3, 4, 6} -> 1..4] }

ProfileSubjects ==
    (ProfileSystems \cup UncontrolledSystems) \X { [regulatory |-> "undefined"] }

InitProfiles == InitWith(DefaultSetups, {0}, ProfileSubjects)

SpecProfiles == InitProfiles /\ [][NextChecks]_vars

(***************************************************************************)
(* SpecWarnings: validateSafety applied to one subject of the default      *)
(* engine, drawn by Init from the descriptors of SpecProfiles and from the *)
(* descriptors with any set of the warning flags absent.                   *)
(***************************************************************************)
WarningSystems == { WithAbsent(D) : D \in SUBSET WarningFlags }

WarningSubjects == WarningSystems \X { [regulatory |-> "undefined"] }

InitWarnings == InitWith(DefaultSetups, {0}, ProfileSubjects \cup WarningSubjects)

SpecWarnings == InitWarnings /\ [][NextChecks]_vars

(***************************************************************************)
(* SpecPairs: validateSafety applied, on the engine of the default         *)
(* configuration, to two descriptors drawn by Init: the second has, in one *)
(* category, fewer flags absent than the first, and the same flags in the  *)
(* other categories, which have none, the warning flags or all of their    *)
(* flags absent.  The two calls interleave in every order.                 *)
(***************************************************************************)
SystemPairs ==
    { << WithAbsent(rest \cup ProfileFlags(i, worse)),
         WithAbsent(rest \cup ProfileFlags(i, better)) >> :
        <<i, worse, better, rest>> \in
            { t \in (1..Len(Categories)) \X (1..4) \X (1..4)
                      \X { UNION { ProfileFlags(j, p[j]) : j \in DOMAIN p } :
                              p \in [1..Len(Categories) -> {1, 2, 4}] } :
                /\ ProfileFlags(t[1], t[3]) \subseteq ProfileFlags(t[1], t[2])
                /\ t[3] # t[2]
                /\ t[4] \cap FlagsOf(t[1]) = {} } }

PairSubjects == SystemPairs \X { [regulatory |-> "undefined"] }

InitPairs == InitWith(DefaultSetups, {0}, PairSubjects)

NextPairs ==
    \/ started < Len(subject[1]) /\ ValidateStart(subject[1][started + 1], subject[2])
    \/ \E c \in 1..Len(subject[1]) : ValidateResume(c)

SpecPairs == InitPairs /\ [][NextPairs]_vars

(***************************************************************************)
(* SpecRepeat: repeated and interleaved validations on a fresh engine      *)
(* whose auditing is off, by the environment or by its configuration.      *)
(***************************************************************************)
QuietSetups == { setup \in EngineSetups : ~constructor(setup.cfg, setup.env).auditEnabled }

\* the engine's inputs, a number, and a descriptor without human control
RepeatInputs ==
    EngineInputs
        \cup { << NonObject("number"), [regulatory |-> "undefined"] >>,
               << WithAbsent({"humanOversight", "manualOverride", "auditTrail"}),
                  [regulatory |-> "undefined"] >> }

InitRepeat == InitWith(QuietSetups, {0}, {NoSubject})

NextRepeat ==
    \/ started < MaxRepeats /\ \E in \in RepeatInputs : ValidateStart(in[1], in[2])
    \/ \E c \in 1..MaxRepeats : ValidateResume(c)

SpecRepeat == InitRepeat /\ [][NextRepeat]_vars

(***************************************************************************)
(* SpecFilters: a caller of getAuditLog, with any combination of filters,  *)
(* on a fresh auditing engine under validations of the compliant           *)
(* descriptor and direct appends, while the days pass.                     *)
(***************************************************************************)
\* every combination of a type, a start date and an end date, given or not
AllFilters ==
    [ type      : { "undefined", "safety_validation", "system_event" },
      startDate : { NoTime, 1, 2 },
      endDate   : { NoTime, 1, 2 } ]

\* a day passes
Tick ==
    /\ now < MaxDays
    /\ now' = now + 1
    /\ UNCHANGED << subject, aggregated, dashboard, config, heap, auditLog, calls,
                    uuidCount, reader, reads, appended, started, direct, apart >>

InitFilters == InitWith(LongRunSetups, {0}, {NoSubject})

NextFilters ==
    \/ started < MaxObservedCalls
           /\ ValidateStart(CompliantSystem, [regulatory |-> "undefined"])
    \/ \E c \in 1..MaxObservedCalls : ValidateResume(c)
    \/ DirectAppend
    \/ Tick
    \/ \E f \in AllFilters : GetAuditLog(f)

SpecFilters == InitFilters /\ [][NextFilters]_vars

(***************************************************************************)
(* SpecPeers: two engines constructed in one process, each with its own   *)
(* config, and validateSafety calls on both, interleaved at their awaits.  *)
(* uuidv4 and the clock belong to the process.                             *)
(***************************************************************************)
PeerValidateStart(aiSystem, context) ==
    /\ peer.auditLog # NoRef
    /\ Len(peer.calls) < MaxObservedCalls
    /\ peer' = [peer EXCEPT !.calls = Append(@,
                    [ pc           |-> IF Throws(aiSystem) THEN "rejected" ELSE "awaiting",
                      aiSystem     |-> aiSystem,
                      context      |-> context,
                      validationId |-> uuidCount + 1,
                      timestamp    |-> now,
                      safetyChecks |-> IF Throws(aiSystem) THEN Thrown("TypeError")
                                       ELSE performSafetyChecks(aiSystem, context),
                      result       |-> "none" ])]
    /\ uuidCount' = uuidCount + 1
    /\ UNCHANGED << subject, aggregated, dashboard, config, heap, auditLog, calls, now,
                    reader, reads, appended, started, direct, trended, batch >>

PeerValidateResume(c) ==
    /\ c \in DOMAIN peer.calls
    /\ peer.calls[c].pc = "awaiting"
    /\ IF peer.calls[c].safetyChecks.threw
       THEN /\ peer' = [peer EXCEPT !.calls[c].pc = "rejected"]
            /\ UNCHANGED << heap, uuidCount >>
       ELSE LET result == ValidationResult(peer.config, peer.calls[c].validationId,
                              peer.calls[c].timestamp, peer.calls[c].safetyChecks.value,
                              peer.calls[c].aiSystem)
                logged == logAuditEvent(heap, peer.auditLog, ValidationEvent(result),
                              uuidCount + 1, now)
            IN  IF peer.config.auditEnabled
                THEN /\ peer' = [peer EXCEPT !.calls[c].pc = "resolved",
                                             !.calls[c].result = result,
                                             !.auditLog = logged.auditLog]
                     /\ heap' = Collect(logged.heap, {logged.auditLog, auditLog, reader.ref})
                     /\ uuidCount' = uuidCount + 1
                ELSE /\ peer' = [peer EXCEPT !.calls[c].pc = "resolved",
                                             !.calls[c].result = result]
                     /\ UNCHANGED << heap, uuidCount >>
    /\ UNCHANGED << subject, aggregated, dashboard, config, auditLog, calls, now,
                    reader, reads, appended, started, direct, trended, batch >>

\* the first engine takes its config from the environment, the second has
\* auditEnabled in its config: each of the two audits or not
FirstSetups == { setup \in EngineSetups : setup.cfg = NoConfig }

SecondSetups == EngineSetups \ FirstSetups

InitPeers ==
    \E first \in FirstSetups, second \in SecondSetups :
        LET one == newEngine(NoHeap, first.cfg, first.env)
            two == newEngine(one.heap, second.cfg, second.env)
        IN  /\ config = one.engine.config
            /\ auditLog = one.engine.auditLog
            /\ calls = one.engine.calls
            /\ peer = two.engine
            /\ heap = two.heap
            /\ subject = NoSubject
            /\ aggregated = NoAggregate
            /\ appended = << >>
            /\ uuidCount = 0
            /\ now = 1
            /\ reader = NoReader
            /\ reads = 0
            /\ started = 0
            /\ direct = 0
            /\ dashboard = NoDashboard
            /\ trended = NoTrends
            /\ batch = NoBatch

NextPeers ==
    \/ started < MaxObservedCalls
           /\ \E in \in DashboardSubjects : ValidateStart(in[1], in[2])
    \/ \E c \in 1..MaxObservedCalls : ValidateResume(c)
    \/ \E in \in DashboardSubjects : PeerValidateStart(in[1], in[2])
    \/ \E c \in 1..MaxObservedCalls : PeerValidateResume(c)

SpecPeers == InitPeers /\ [][NextPeers]_vars

(***************************************************************************)
(* SpecBatch: one batchAnalyze request over up to MaxQueries queries, each *)
(* an object with an id as the route requires; every processQuery call     *)
(* settles at some time, resolved or rejected.                             *)
(***************************************************************************)
\* the handler runs from the request to its first await or its response
BatchAnalyze ==
    /\ batch.pc = "received"
    /\ batch' = BatchLoop(batch)
    /\ UNCHANGED << subject, aggregated, dashboard, config, heap, auditLog, calls, now,
                    uuidCount, reader, reads, appended, started, direct, trended, peer >>

\* processQuery of the k-th query settles and its map callback returns
ProcessQuerySettle(k, outcome) ==
    /\ batch.pc = "awaiting"
    /\ k \in DOMAIN batch.batchPromises
    /\ batch.batchPromises[k].state = "pending"
    /\ batch' = [batch EXCEPT !.batchPromises[k] = mapCallback(batch.queries[k], outcome)]
    /\ UNCHANGED << subject, aggregated, dashboard, config, heap, auditLog, calls, now,
                    uuidCount, reader, reads, appended, started, direct, trended, peer >>

\* Promise.all settles: rejected as soon as one promise is (the outer catch
\* answers 500), fulfilled when all are (the entries are collected and the
\* loop goes on)
BatchResume ==
    /\ batch.pc = "awaiting"
    /\ LET group == DOMAIN batch.batchPromises
           lo    == batch.i + 1
           hi    == batch.i + Cardinality(group)
       IN  IF \E k \in group : batch.batchPromises[k].state = "rejected"
           THEN batch' = [batch EXCEPT !.pc = "responded",
                                       !.response = [NoResponse EXCEPT !.code = 500]]
           ELSE /\ \A k \in group : batch.batchPromises[k].state = "fulfilled"
                /\ batch' = BatchLoop(
                       [batch EXCEPT
                           !.results = @ \o BatchFilter(batch.batchPromises, lo, hi, "success"),
                           !.errors  = @ \o BatchFilter(batch.batchPromises, lo, hi, "error"),
                           !.i       = @ + concurrencyLimit])
    /\ UNCHANGED << subject, aggregated, dashboard, config, heap, auditLog, calls, now,
                    uuidCount, reader, reads, appended, started, direct, trended, peer >>

InitBatch ==
    /\ \E n \in 0..MaxQueries : batch = Request([ k \in 1..n |-> [id |-> k] ])
    /\ subject = NoSubject
    /\ aggregated = NoAggregate
    /\ config = constructor(NoConfig, EnvUnset)
    /\ heap = (1 :> << >>)
    /\ auditLog = 1
    /\ appended = << >>
    /\ uuidCount = 0
    /\ calls = << >>
    /\ now = 1
    /\ reader = NoReader
    /\ reads = 0
    /\ started = 0
    /\ direct = 0
    /\ dashboard = NoDashboard
    /\ trended = NoTrends
    /\ peer = NoPeer

NextBatch ==
    \/ BatchAnalyze
    \/ \E k \in 1..MaxQueries, outcome \in { "resolved", "rejected" } :
           ProcessQuerySettle(k, outcome)
    \/ BatchResume

SpecBatch == InitBatch /\ [][NextBatch]_vars

(***************************************************************************)
(* SpecTrends: calculateComplianceTrends applied directly, on day 40, to   *)
(* a short list of validation events stamped around the two window edges,  *)
(* drawn by Init.                                                          *)
(***************************************************************************)
\* the days around the edges of the two windows, today and tomorrow
TrendTimes == { now - 31, now - 30, now - 29, now - 8, now - 7, now - 6, now, now + 1 }

\* the audit entry of a validation of aiSystem made at time t
TrendEvent(aiSystem, t) ==
    AuditEntry(
        ValidationEvent(
            ValidationResult(config, 1, t,
                performSafetyChecks(aiSystem, [regulatory |-> "undefined"]).value,
                aiSystem)),
        2, now)

TrendEvents ==
    { TrendEvent(aiSystem, t) : aiSystem \in { CompliantSystem, EmptySystem }, t \in TrendTimes }

TrendInputs == UNION { [ 1..n -> TrendEvents ] : n \in 0..MaxTrendEvents }

CalculateComplianceTrends ==
    /\ ~trended.called
    /\ trended' = [ validations |-> trended.validations,
                    called      |-> TRUE,
                    value       |-> calculateComplianceTrends(trended.validations, now) ]
    /\ UNCHANGED << subject, aggregated, dashboard, config, heap, auditLog, calls, now,
                    uuidCount, reader, reads, appended, started, direct, peer, batch >>

InitTrends ==
    /\ subject = NoSubject
    /\ aggregated = NoAggregate
    /\ config = constructor(NoConfig, EnvUnset)
    /\ heap = (1 :> << >>)
    /\ auditLog = 1
    /\ appended = << >>
    /\ uuidCount = 0
    /\ calls = << >>
    /\ now = 40
    /\ reader = NoReader
    /\ reads = 0
    /\ started = 0
    /\ direct = 0
    /\ dashboard = NoDashboard
    /\ \E validations \in TrendInputs :
          trended = [NoTrends EXCEPT !.validations = validations]
    /\ peer = NoPeer
    /\ batch = NoBatch

NextTrends == CalculateComplianceTrends

SpecTrends == InitTrends /\ [][NextTrends]_vars

(***************************************************************************)
(* Properties of the audit log.                                            *)
(***************************************************************************)
\* the engine's audit trail
Trail == heap[auditLog]

\* the last min(Len(seq), n) elements of seq, by index
LastOf(seq, n) ==
    LET k == IF Len(seq) < n THEN Len(seq) ELSE n
    IN  [ i \in 1..k |-> seq[Len(seq) - k + i] ]

\* number of entries of seq that carry the validationId vid
CountOf(seq, vid) == Cardinality({ i \in DOMAIN seq : seq[i].validationId = vid })

\* C1: in every state between two operations (the states getAuditLog,
\* getComplianceDashboard and getHealthStatus can observe) the audit trail
\* holds at most 1000 events.
Thm_C1_AuditLogBounded == Len(Trail) <= 1000

\* the trail is full and older events have been evicted
Wit_C1_Evicted == Len(Trail) = 1000 /\ Len(appended) > 1000

\* C2: a getAuditLog({}) call returns exactly the last min(N, 1000) of the N
\* events appended so far, in their append order, and the trail itself is
\* always that tail of the append history.
Thm_C2_LastEventsInOrder ==
    /\ [](Trail = LastOf(appended, 1000))
    /\ [][ (reads' # reads /\ reader'.filters = NoFilters)
              => heap'[reader'.ref] = LastOf(appended, 1000) ]_vars

\* an unfiltered read taken after more than 1000 appends
Wit_C2_ReadAfterEviction ==
    /\ reader.ref # NoRef
    /\ reader.filters = NoFilters
    /\ reader.edits = 0
    /\ Len(appended) > 1000
    /\ heap[reader.ref] = Trail

\* C3: under every interleaving of validateSafety calls on an engine with
\* auditing on, no append is lost or duplicated: a call that has returned
\* a result has exactly one event in the append history, a call that has
\* not (yet) returned one has none, the trail's length is
\* min(1000, number of events appended), and every call's event that is
\* among the last 1000 appended is in the trail exactly once.
Thm_C3_AppendsSerialized ==
    /\ Len(Trail) = Min(1000, Len(appended))
    /\ \A c \in DOMAIN calls :
          LET vid == calls[c].validationId
              pos == { i \in DOMAIN appended : appended[i].validationId = vid }
          IN  /\ Cardinality(pos) =
                     IF calls[c].pc = "resolved" /\ config.auditEnabled THEN 1 ELSE 0
              /\ CountOf(Trail, vid) =
                     Cardinality({ i \in pos : i > Len(appended) - 1000 })

\* two calls were in flight together (the second took its uuid before the
\* first logged its event), both have returned, and the log has overflowed
Wit_C3_TwoConcurrentCalls ==
    /\ Len(calls) >= 2
    /\ calls[1].pc = "resolved"
    /\ calls[2].pc = "resolved"
    /\ calls[2].validationId = calls[1].validationId + 1
    /\ config.auditEnabled
    /\ Len(appended) > 1000
    /\ CountOf(Trail, calls[1].validationId) = 1
    /\ CountOf(Trail, calls[2].validationId) = 1

\* the events of a trail that pass every given filter, in trail order
FilteredTrail(trail, filters) ==
    SelectSeq(trail, LAMBDA e :
        /\ filters.type # "undefined" => e.type = filters.type
        /\ filters.startDate # NoTime => e.timestamp >= filters.startDate
        /\ filters.endDate # NoTime => e.timestamp <= filters.endDate)

\* C4: getAuditLog returns a fresh array holding the filtered trail of a
\* state in which every append so far is complete (the last min(N, 1000)
\* events appended); an append or eviction after the call does not change
\* the array returned, and a caller that adds or removes elements of that
\* array does not change the engine's trail.
Thm_C4_SnapshotCopy ==
    [][ /\ reads' # reads =>
              /\ reader'.ref # auditLog'
              /\ heap'[reader'.ref] = FilteredTrail(LastOf(appended, 1000), reader'.filters)
        /\ (reader.ref # NoRef /\ appended' # appended) =>
              /\ reader' = reader
              /\ heap'[reader.ref] = heap[reader.ref]
        /\ (reader.ref # NoRef /\ reader'.edits # reader.edits) =>
              /\ auditLog' = auditLog
              /\ heap'[auditLog] = heap[auditLog] ]_vars

\* an unchanged array read before an append that evicted an event
Wit_C4_SnapshotOutlivesAppend ==
    /\ reader.ref # NoRef
    /\ reader.filters = NoFilters
    /\ reader.edits = 0
    /\ Len(heap[reader.ref]) = 1000
    /\ Len(appended) > 1000
    /\ heap[reader.ref] # Trail

\* C5: a validateSafety call that returns a result appends exactly one
\* audit event (its own, evicting the oldest event when the trail is full)
\* when auditEnabled is true, and leaves the trail unchanged when
\* auditEnabled is false; the part of the call before the await leaves the
\* trail unchanged.
Thm_C5_OneEventIfEnabled ==
    [][ /\ Len(calls') > Len(calls) => heap'[auditLog'] = heap[auditLog]
        /\ \A c \in DOMAIN calls :
              (calls[c].pc = "awaiting" /\ calls'[c].pc = "resolved") =>
                  IF config.auditEnabled
                  THEN /\ Len(appended') = Len(appended) + 1
                       /\ \E e \in { appended'[Len(appended')] } :
                             /\ e.validationId = calls[c].validationId
                             /\ e.type = "safety_validation"
                             /\ heap'[auditLog'] = LastOf(Append(heap[auditLog], e), 1000)
                  ELSE /\ heap'[auditLog'] = heap[auditLog]
                       /\ appended' = appended ]_vars

\* a call has returned its result on an engine with auditing on, and its
\* event is the newest of the trail
Wit_C5_ResultAndEvent ==
    \E c \in DOMAIN calls :
        /\ calls[c].pc = "resolved"
        /\ config.auditEnabled
        /\ Trail # << >>
        /\ Trail[Len(Trail)].validationId = calls[c].validationId

(***************************************************************************)
(* Properties of the verdict, the compliance score and the checks.         *)
(***************************************************************************)
\* the calls that have returned a result
Resolved == { c \in DOMAIN calls : calls[c].pc = "resolved" }

\* C6: the verdict of a validation is 'compliant' if and only if its
\* complianceScore is >= the engine's complianceThreshold, 'non-compliant'
\* otherwise; an engine built without configuration has threshold 0.95.
Thm_C6_VerdictIffThreshold ==
    /\ constructor(NoConfig, EnvUnset).complianceThreshold = [num |-> 19, den |-> 20]
    /\ \A c \in Resolved :
          LET r == calls[c].result
              t == config.complianceThreshold
          IN  /\ r.safetyStatus \in {"compliant", "non-compliant"}
              /\ r.safetyStatus = "compliant"
                    <=> r.complianceScore.num * t.den >= t.num * r.complianceScore.den

\* a validation whose score equals the threshold 0.96 exactly
Wit_C6_ScoreAtThreshold ==
    \E c \in Resolved :
        /\ config.complianceThreshold = [num |-> 24, den |-> 25]
        /\ calls[c].result.complianceScore = [num |-> 24, den |-> 25]
        /\ calls[c].result.safetyStatus = "compliant"

\* the weight table of the claim, in hundredths
ClaimWeight(k) ==
    CASE k = "ethicalGuidelines" -> 20
      [] k = "dataPrivacy"       -> 15
      [] k = "bias"              -> 15
      [] k = "transparency"      -> 15
      [] k = "humanControl"      -> 20
      [] k = "robustness"        -> 10
      [] k = "accountability"    -> 5

RECURSIVE SumWeights(_)
SumWeights(S) ==
    IF S = {} THEN 0
    ELSE LET k == CHOOSE x \in S : TRUE
         IN  ClaimWeight(k) + SumWeights(S \ {k})

RECURSIVE SumWeighted(_, _)
SumWeighted(safetyChecks, S) ==
    IF S = {} THEN 0
    ELSE LET k == CHOOSE x \in S : TRUE
         IN  ClaimWeight(k) * safetyChecks[k].score + SumWeighted(safetyChecks, S \ {k})

\* score = (sum of weight * score) / (sum of weights), over the categories
\* present; the sums are in units of 1/100000 and 1/100
IsWeightedMean(score, safetyChecks) ==
    LET P == DOMAIN safetyChecks
    IN  IF P = {}
        THEN score.num = 0 /\ score.den > 0
        ELSE /\ score.den > 0
             /\ score.num * (SumWeights(P) * 1000) = SumWeighted(safetyChecks, P) * score.den

\* C7: complianceScore is the weighted mean of the scores of the categories
\* present, with the weights 0.20, 0.15, 0.15, 0.15, 0.20, 0.10, 0.05; in a
\* validation all 7 categories are present and the weights sum to 1.0;
\* with no weighted category present the score is 0.
Thm_C7_WeightedMean ==
    /\ \A c \in Resolved :
          /\ DOMAIN calls[c].result.safetyChecks = CategorySet
          /\ SumWeights(DOMAIN calls[c].result.safetyChecks) = 100
          /\ IsWeightedMean(calls[c].result.complianceScore, calls[c].result.safetyChecks)
    /\ aggregated # NoAggregate =>
          IsWeightedMean(aggregated.score, aggregated.safetyChecks)

\* the score of two of the seven categories, one of them deficient
Wit_C7_PartialCategories ==
    /\ aggregated # NoAggregate
    /\ DOMAIN aggregated.safetyChecks = {"robustness", "accountability"}
    /\ aggregated.safetyChecks["robustness"].score = 432
    /\ aggregated.safetyChecks["accountability"].score = 1000
    /\ aggregated.score = [num |-> 233, den |-> 375]

\* C8: every category score of a validation lies in [0, 1] and so does its
\* complianceScore.
Thm_C8_ScoresInUnitInterval ==
    \A c \in Resolved :
        LET r == calls[c].result
        IN  /\ \A k \in DOMAIN r.safetyChecks :
                  r.safetyChecks[k].score >= 0 /\ r.safetyChecks[k].score <= 1000
            /\ r.complianceScore.den > 0
            /\ r.complianceScore.num >= 0
            /\ r.complianceScore.num <= r.complianceScore.den

\* a validation with the lowest human-control score, 0.3 * 0.5 * 0.9
Wit_C8_LowestScore ==
    \E c \in Resolved :
        /\ calls[c].result.safetyChecks["humanControl"].score = 135
        /\ calls[c].result.complianceScore.num < calls[c].result.complianceScore.den

\* the table of the claim: per category its sub-conditions in order, each
\* with the penalty factor in tenths and the severity
ClaimTable(k) ==
    CASE k = "ethicalGuidelines" ->
            << <<"ethicalBoundaries", 8, "warning">>, <<"harmPrevention", 6, "error">>,
               <<"valuesAlignment", 9, "warning">> >>
      [] k = "dataPrivacy" ->
            << <<"encryption", 5, "error">>, <<"dataMinimization", 8, "warning">>,
               <<"consentManagement", 6, "error">> >>
      [] k = "bias" ->
            << <<"biasTesting", 4, "error">>, <<"fairnessMetrics", 8, "warning">>,
               <<"datasetDiversity", 9, "warning">> >>
      [] k = "transparency" ->
            << <<"explainability", 5, "error">>, <<"decisionLogging", 8, "warning">>,
               <<"modelDocumentation", 9, "warning">> >>
      [] k = "humanControl" ->
            << <<"humanOversight", 3, "error">>, <<"manualOverride", 5, "error">>,
               <<"escalationProcedures", 9, "warning">> >>
      [] k = "robustness" ->
            << <<"adversarialTesting", 8, "warning">>, <<"errorHandling", 6, "error">>,
               <<"performanceMonitoring", 9, "warning">> >>
      [] k = "accountability" ->
            << <<"responsibilityMatrix", 6, "error">>, <<"auditTrail", 5, "error">>,
               <<"incidentResponse", 8, "warning">> >>

\* the claim's deficiency of a flag: absent (or false); an empty list for
\* ethicalBoundaries; enabled false or conducted false for the structured
\* flags.  A descriptor that is a number has every flag absent.
ClaimDeficient(aiSystem, flag) ==
    \/ aiSystem["typeof"] # "object"
    \/ aiSystem[flag] \in {"undefined", "false"}
    \/ flag = "ethicalBoundaries" /\ aiSystem[flag] = "[]"
    \/ /\ flag \in {"encryption", "explainability", "humanOversight", "auditTrail"}
       /\ aiSystem[flag] = "{enabled:false}"
    \/ /\ flag \in {"biasTesting", "adversarialTesting"}
       /\ aiSystem[flag] = "{conducted:false}"

\* the factor, in tenths, a sub-condition contributes
ClaimFactor(aiSystem, row) == IF ClaimDeficient(aiSystem, row[1]) THEN row[2] ELSE 10

\* C9: each category score is the product of the penalty factors of exactly
\* the deficient sub-conditions of the table, and the issue list holds one
\* issue per deficient sub-condition, with the table's severity, in table
\* order.
Thm_C9_PenaltyTable ==
    \A c \in Resolved :
        \A k \in CategorySet :
            LET d      == calls[c].aiSystem
                t      == ClaimTable(k)
                res    == calls[c].result.safetyChecks[k]
                rows   == SelectSeq(t, LAMBDA row : ClaimDeficient(d, row[1]))
            IN  /\ res.score * 1000 =
                       1000 * ClaimFactor(d, t[1]) * ClaimFactor(d, t[2]) * ClaimFactor(d, t[3])
                /\ Len(res.checks) = Len(rows)
                /\ \A j \in 1..Len(rows) : res.checks[j].type = rows[j][3]

\* a descriptor whose bias testing is present but not conducted
Wit_C9_NotConducted ==
    \E c \in Resolved :
        /\ calls[c].aiSystem["biasTesting"] = "{conducted:false}"
        /\ calls[c].aiSystem["fairnessMetrics"] = "true"
        /\ calls[c].aiSystem["datasetDiversity"] = "undefined"
        /\ calls[c].result.safetyChecks["bias"].score = 360
        /\ Len(calls[c].result.safetyChecks["bias"].checks) = 2

\* C10: in every category, status is 'pass' iff score >= 0.8, 'warning' iff
\* 0.6 <= score < 0.8, and 'fail' iff score < 0.6.
Thm_C10_StatusThresholds ==
    \A c \in Resolved :
        \A k \in CategorySet :
            LET res == calls[c].result.safetyChecks[k]
            IN  /\ res.status = "pass" <=> res.score >= 800
                /\ res.status = "warning" <=> (res.score >= 600 /\ res.score < 800)
                /\ res.status = "fail" <=> res.score < 600

\* accountability at exactly 0.8 passes
Wit_C10_ExactlyPass ==
    \E c \in Resolved :
        /\ calls[c].result.safetyChecks["accountability"].score = 800
        /\ calls[c].result.safetyChecks["accountability"].status = "pass"

(***************************************************************************)
(* Properties of the risk assessment and the recommendations.              *)
(***************************************************************************)
\* the issues of a category result that have the given severity
ClaimIssues(res, severity) ==
    { j \in 1..Len(res.checks) : res.checks[j].type = severity }

\* the categories of a result that fail and hold an error-severity issue
ClaimCriticalCategories(safetyChecks) ==
    { k \in DOMAIN safetyChecks :
        /\ safetyChecks[k].status = "fail"
        /\ ClaimIssues(safetyChecks[k], "error") # {} }

\* the warning-severity issues of a result, each with its category
ClaimWarningIssues(safetyChecks) ==
    { <<k, j>> \in (DOMAIN safetyChecks) \X (1..3) :
        j \in ClaimIssues(safetyChecks[k], "warning") }

\* C11: in every risk assessment criticalFailures is the number of
\* categories that have status 'fail' and hold at least one error-severity
\* issue, and warnings is the number of warning-severity issues over all
\* categories.
Thm_C11_RiskCounts ==
    \A c \in Resolved :
        LET r == calls[c].result
        IN  /\ r.riskAssessment.criticalFailures =
                   Cardinality(ClaimCriticalCategories(r.safetyChecks))
            /\ r.riskAssessment.warnings =
                   Cardinality(ClaimWarningIssues(r.safetyChecks))

\* one category fails with an error and is counted, another holds an error
\* but has status 'warning' and is not
Wit_C11_ErrorNotCounted ==
    \E c \in Resolved :
        LET r == calls[c].result
        IN  /\ r.safetyChecks["ethicalGuidelines"].status = "warning"
            /\ ClaimIssues(r.safetyChecks["ethicalGuidelines"], "error") # {}
            /\ r.safetyChecks["bias"].status = "fail"
            /\ r.riskAssessment.criticalFailures = 1
            /\ r.riskAssessment.warnings = 2


\* C12: the risk level is 'high' iff criticalFailures > 2 or warnings > 5,
\* 'medium' iff it is not high and criticalFailures > 0 or warnings > 2,
\* and 'low' otherwise.
Thm_C12_RiskLevel ==
    \A c \in Resolved :
        LET a    == calls[c].result.riskAssessment
            high == a.criticalFailures > 2 \/ a.warnings > 5
            med  == ~high /\ (a.criticalFailures > 0 \/ a.warnings > 2)
        IN  /\ a.level \in {"high", "medium", "low"}
            /\ a.level = "high" <=> high
            /\ a.level = "medium" <=> med
            /\ a.level = "low" <=> (~high /\ ~med)

\* both counts at the edge of 'high': 2 critical failures and 5 warnings
\* are medium
Wit_C12_EdgeOfHigh ==
    \E c \in Resolved :
        LET a == calls[c].result.riskAssessment
        IN  a.criticalFailures = 2 /\ a.warnings = 5 /\ a.level = "medium"


\* the issues the claim gives a recommendation: <<priority, category, index
\* of the issue in the category's list>>
ClaimRecommended(safetyChecks) ==
    { <<"high", k, j>> : <<k, j>> \in
          { <<k, j>> \in (DOMAIN safetyChecks) \X (1..3) :
              /\ safetyChecks[k].status = "fail"
              /\ j \in ClaimIssues(safetyChecks[k], "error") } }
    \cup { <<"medium", kj[1], kj[2]>> : kj \in ClaimWarningIssues(safetyChecks) }

\* the positions of a recommendation list that name the issue e
ClaimPositions(recs, safetyChecks, e) ==
    { i \in DOMAIN recs :
        /\ recs[i].priority = e[1]
        /\ recs[i].category = e[2]
        /\ recs[i].issue = safetyChecks[e[2]].checks[e[3]].message }

\* C13: the recommendation list holds exactly one 'high' recommendation for
\* each error-severity issue of a category with status 'fail', exactly one
\* 'medium' recommendation for each warning-severity issue of any category,
\* each naming the category and message of its issue, and nothing else.
Thm_C13_RecommendationsExact ==
    \A c \in Resolved :
        LET r    == calls[c].result
            recs == r.recommendations
            E    == ClaimRecommended(r.safetyChecks)
        IN  /\ Len(recs) = Cardinality(E)
            /\ \A e \in E : Cardinality(ClaimPositions(recs, r.safetyChecks, e)) = 1
            /\ \A i \in DOMAIN recs :
                  \E e \in E : i \in ClaimPositions(recs, r.safetyChecks, e)

\* an error of a category with status 'warning' gets no recommendation, a
\* warning of a passing category gets a medium one, an error of a failing
\* category a high one
Wit_C13_ErrorWithoutRecommendation ==
    \E c \in Resolved :
        LET r    == calls[c].result
            recs == r.recommendations
        IN  /\ r.safetyChecks["ethicalGuidelines"].status = "warning"
            /\ ClaimIssues(r.safetyChecks["ethicalGuidelines"], "error") # {}
            /\ \A i \in DOMAIN recs : recs[i].category # "ethicalGuidelines"
            /\ r.safetyChecks["dataPrivacy"].status = "pass"
            /\ \E i \in DOMAIN recs :
                  recs[i].category = "dataPrivacy" /\ recs[i].priority = "medium"
            /\ \E i \in DOMAIN recs :
                  recs[i].category = "bias" /\ recs[i].priority = "high"


\* the category order of the claim: ethics, privacy, bias, transparency,
\* human-control, robustness, accountability
ClaimCategoryOrder ==
    << "ethicalGuidelines", "dataPrivacy", "bias", "transparency",
       "humanControl", "robustness", "accountability" >>

ClaimCategoryIndex(k) == CHOOSE i \in DOMAIN ClaimCategoryOrder : ClaimCategoryOrder[i] = k

\* where the check of its category emitted the issue of a recommendation
ClaimIssueIndex(safetyChecks, rec) ==
    CHOOSE j \in DOMAIN safetyChecks[rec.category].checks :
        safetyChecks[rec.category].checks[j].message = rec.issue

\* C14: in every recommendation list all 'high' recommendations precede all
\* 'medium' ones, and within one priority the recommendations follow the
\* fixed category order and, inside a category, the order in which the
\* check emitted the issues.
Thm_C14_RecommendationOrder ==
    \A c \in Resolved :
        LET r    == calls[c].result
            recs == r.recommendations
        IN  \A i, j \in DOMAIN recs :
                i < j =>
                    /\ ~(recs[i].priority = "medium" /\ recs[j].priority = "high")
                    /\ recs[i].priority = recs[j].priority =>
                          \/ ClaimCategoryIndex(recs[i].category)
                                 < ClaimCategoryIndex(recs[j].category)
                          \/ /\ recs[i].category = recs[j].category
                             /\ ClaimIssueIndex(r.safetyChecks, recs[i])
                                    < ClaimIssueIndex(r.safetyChecks, recs[j])

\* the high recommendation of the bias error precedes the medium ones of
\* the warnings of ethics, an earlier category, and of robustness
Wit_C14_HighBeforeEarlierMedium ==
    \E c \in Resolved :
        LET recs == calls[c].result.recommendations
        IN  \E i, j, l \in DOMAIN recs :
                /\ i < j /\ j < l
                /\ recs[i].priority = "high" /\ recs[i].category = "bias"
                /\ recs[j].priority = "medium" /\ recs[j].category = "ethicalGuidelines"
                /\ recs[l].priority = "medium" /\ recs[l].category = "robustness"


\* the descriptors with all 21 flags present and enabled: a non-empty list
\* of boundaries, enabled / conducted objects, and true for the rest
ClaimFullyCompliant(aiSystem) ==
    /\ aiSystem["typeof"] = "object"
    /\ \A f \in FlagSet :
          aiSystem[f] \in {"[x]", "{enabled:true}", "{conducted:true}", "true"}

\* C15: a validation of a fully compliant descriptor by an engine with the
\* default threshold 0.95 has complianceScore 1.0, verdict 'compliant',
\* risk level 'low' with no critical failure and no warning, and no
\* recommendation.
Thm_C15_FullyCompliant ==
    \A c \in Resolved :
        (/\ ClaimFullyCompliant(calls[c].aiSystem)
         /\ config.complianceThreshold = [num |-> 19, den |-> 20]) =>
            LET r == calls[c].result
            IN  /\ r.complianceScore = [num |-> 1, den |-> 1]
                /\ r.safetyStatus = "compliant"
                /\ r.riskAssessment.level = "low"
                /\ r.riskAssessment.criticalFailures = 0
                /\ r.riskAssessment.warnings = 0
                /\ r.recommendations = << >>

\* the fully compliant descriptor has been validated by the default engine
Wit_C15_CompliantValidated ==
    \E c \in Resolved :
        /\ ClaimFullyCompliant(calls[c].aiSystem)
        /\ config = constructor(NoConfig, EnvUnset)
        /\ calls[c].result.safetyStatus = "compliant"
        /\ \A k \in CategorySet : calls[c].result.safetyChecks[k].status = "pass"


\* humanOversight, manualOverride and auditTrail are all missing
ClaimUncontrolled(aiSystem) ==
    /\ aiSystem["typeof"] = "object"
    /\ \A f \in {"humanOversight", "manualOverride", "auditTrail"} :
          aiSystem[f] = "undefined"

\* C16: for every descriptor without humanOversight, manualOverride and
\* auditTrail, whatever its other flags, human control and accountability
\* both have status 'fail', criticalFailures is at least 2 and the risk
\* level is 'medium' or 'high'.
Thm_C16_UncontrolledIsRisky ==
    \A c \in Resolved :
        ClaimUncontrolled(calls[c].aiSystem) =>
            LET r == calls[c].result
            IN  /\ r.safetyChecks["humanControl"].status = "fail"
                /\ r.safetyChecks["accountability"].status = "fail"
                /\ r.riskAssessment.criticalFailures >= 2
                /\ r.riskAssessment.level \in {"medium", "high"}

\* exactly these three flags are missing: two critical failures, no warning,
\* risk level medium
Wit_C16_OnlyThreeMissing ==
    \E c \in Resolved :
        /\ ClaimUncontrolled(calls[c].aiSystem)
        /\ \A f \in FlagSet \ {"humanOversight", "manualOverride", "auditTrail"} :
              calls[c].aiSystem[f] # "undefined"
        /\ calls[c].result.riskAssessment.criticalFailures = 2
        /\ calls[c].result.riskAssessment.warnings = 0
        /\ calls[c].result.riskAssessment.level = "medium"


(***************************************************************************)
(* Properties of validateSafety as a whole.                                *)
(***************************************************************************)
\* a result without its validationId and timestamp
ClaimContent(result) ==
    [ safetyStatus    |-> result.safetyStatus,
      complianceScore |-> result.complianceScore,
      safetyChecks    |-> result.safetyChecks,
      riskAssessment  |-> result.riskAssessment,
      recommendations |-> result.recommendations,
      metadata        |-> result.metadata ]

\* C17: on an engine with auditEnabled false, any two validations of the
\* same descriptor return results equal in verdict, complianceScore,
\* category results, risk assessment and recommendations, whatever other
\* validations were made or were in flight in between.
Thm_C17_Deterministic ==
    ~config.auditEnabled =>
        \A c1, c2 \in Resolved :
            calls[c1].aiSystem = calls[c2].aiSystem =>
                ClaimContent(calls[c1].result) = ClaimContent(calls[c2].result)

\* the same descriptor validated twice, with a validation of another
\* descriptor, of another verdict, made in between
Wit_C17_SameAfterOther ==
    /\ ~config.auditEnabled
    /\ Len(calls) >= 3
    /\ {1, 2, 3} \subseteq Resolved
    /\ calls[1].aiSystem = calls[3].aiSystem
    /\ calls[2].aiSystem # calls[1].aiSystem
    /\ calls[2].result.safetyStatus # calls[1].result.safetyStatus
    /\ calls[1].result.validationId # calls[3].result.validationId
    /\ ClaimContent(calls[1].result) = ClaimContent(calls[3].result)


\* C18: validateSafety fails only on a malformed descriptor: a call whose
\* descriptor is an object, with any flags and any context, never ends in
\* an error.
Cex_C18_ObjectNeverRejected ==
    \A c \in DOMAIN calls :
        calls[c].aiSystem["typeof"] = "object" => calls[c].pc # "rejected"

\* C19: a validateSafety call whose descriptor is null, undefined or another
\* value that is no object ends in an error (whatever its name) and not in
\* a result, and appends no audit event.
Cex_C19_NonObjectRejected ==
    \A c \in DOMAIN calls :
        calls[c].aiSystem["typeof"] # "object" =>
            /\ calls[c].pc # "resolved"
            /\ CountOf(appended, calls[c].validationId) = 0


(***************************************************************************)
(* Properties of the compliance dashboard.                                 *)
(***************************************************************************)
\* the positions of the trail that hold a validation event passing the filters
ClaimSelected(trail, filters) ==
    { i \in DOMAIN trail :
          /\ trail[i].type = "safety_validation"
          /\ filters.type # "undefined" => trail[i].type = filters.type
          /\ filters.startDate # NoTime => trail[i].timestamp >= filters.startDate
          /\ filters.endDate # NoTime => trail[i].timestamp <= filters.endDate }

\* a score in hundred-thousandths
ClaimUnits(score) == (score.num * 100000) \div score.den

\* the sum, over a set of scores, of the score times the number of selected
\* positions that hold it, in hundred-thousandths
RECURSIVE ClaimSumUnits(_, _, _)
ClaimSumUnits(trail, selected, scores) ==
    IF scores = {}
    THEN 0
    ELSE LET v == CHOOSE x \in scores : TRUE
         IN  ClaimUnits(v) * Cardinality({ i \in selected : trail[i].result.score = v })
                 + ClaimSumUnits(trail, selected, scores \ {v})

\* the mean of the scores at a non-empty set of positions of the trail
ClaimMean(trail, selected) ==
    Rat(ClaimSumUnits(trail, selected, { trail[i].result.score : i \in selected }),
        100000 * Cardinality(selected))

\* C20: whenever getComplianceDashboard returns, for the trail and the
\* filters of the call, its summary has totalValidations = the number of
\* validation events of the trail that pass the filters, compliantSystems =
\* the number of those with status compliant, complianceRate =
\* compliantSystems / totalValidations and averageScore = the mean of their
\* scores, both 0 when there is no such event; and compliantSystems <=
\* totalValidations <= 1000.
Thm_C20_DashboardSummary ==
    [][ dashboard' # dashboard =>
            LET selected  == ClaimSelected(Trail, dashboard'.filters)
                compliant == { i \in selected : Trail[i].result.status = "compliant" }
                summary   == dashboard'.value.summary
            IN  /\ summary.totalValidations = Cardinality(selected)
                /\ summary.compliantSystems = Cardinality(compliant)
                /\ summary.complianceRate.den > 0
                /\ summary.complianceRate.num * Cardinality(selected)
                       = Cardinality(compliant) * summary.complianceRate.den
                /\ selected # {} => summary.averageScore = ClaimMean(Trail, selected)
                /\ selected = {} =>
                       /\ summary.complianceRate = Rat(0, 1)
                       /\ summary.averageScore = Rat(0, 1)
                /\ summary.compliantSystems <= summary.totalValidations
                /\ summary.totalValidations <= 1000
      ]_vars

\* a dashboard over a full trail of validations, one of them non-compliant
Wit_C20_MixedFullTrail ==
    /\ dashboard.calls > 0
    /\ dashboard.value.summary.totalValidations = 1000
    /\ dashboard.value.summary.compliantSystems = 999
    /\ dashboard.value.summary.complianceRate = Rat(999, 1000)
    /\ dashboard.value.summary.averageScore # Rat(1, 1)


(***************************************************************************)
(* Properties of the trends.                                               *)
(***************************************************************************)
\* the positions of the events stamped at most days before the clock
ClaimWithin(validations, clock, days) ==
    { i \in DOMAIN validations : validations[i].timestamp >= clock - days }

\* C21: calculateComplianceTrends returns last30Days = the number of the
\* given events stamped now - 30 days or later, last7Days = the number
\* stamped now - 7 days or later, and avgScoreLast30Days = the mean score of
\* the former, or 0 when there is none; so last7Days <= last30Days <= the
\* number of events given.
Thm_C21_Trends ==
    LET in30 == ClaimWithin(trended.validations, now, 30)
        in7  == ClaimWithin(trended.validations, now, 7)
    IN  trended.called =>
        /\ trended.value.last30Days = Cardinality(in30)
        /\ trended.value.last7Days = Cardinality(in7)
        /\ in30 # {} => trended.value.avgScoreLast30Days = ClaimMean(trended.validations, in30)
        /\ in30 = {} => trended.value.avgScoreLast30Days = Rat(0, 1)
        /\ trended.value.last7Days <= trended.value.last30Days
        /\ trended.value.last30Days <= Len(trended.validations)

\* events stamped exactly 30 and exactly 7 days ago are both counted, the
\* older one in the 30-day window only, and their scores differ
Wit_C21_BothEdges ==
    /\ trended.called
    /\ Len(trended.validations) = 2
    /\ \E i, j \in DOMAIN trended.validations :
          /\ trended.validations[i].timestamp = now - 30
          /\ trended.validations[j].timestamp = now - 7
          /\ trended.validations[i].result.score # trended.validations[j].result.score
    /\ trended.value.last30Days = 2
    /\ trended.value.last7Days = 1


(***************************************************************************)
(* Properties of the filters of getAuditLog.                               *)
(***************************************************************************)
\* C22: getAuditLog(filters) returns, in trail order, exactly the events
\* whose type is the given one (if a type is given), stamped at or after
\* the start date (if given) and at or before the end date (if given); with
\* no filter it returns every event of the trail.
Thm_C22_FiltersCompose ==
    [][ reads' # reads =>
            /\ heap'[reader'.ref] = FilteredTrail(Trail, reader'.filters)
            /\ reader'.filters = NoFilters => heap'[reader'.ref] = Trail
      ]_vars

\* a type and a start date were given; one event passes only the type,
\* the other only the date, and neither is returned
Wit_C22_TypeAndDate ==
    /\ reader.ref # NoRef
    /\ reader.filters = [type |-> "safety_validation", startDate |-> 2, endDate |-> NoTime]
    /\ heap[reader.ref] = << >>
    /\ Len(Trail) = 2
    /\ \E i, j \in DOMAIN Trail :
          /\ Trail[i].type = "safety_validation" /\ Trail[i].timestamp = 1
          /\ Trail[j].type = "system_event" /\ Trail[j].timestamp = 2


(***************************************************************************)
(* Properties of two engines in one process.                               *)
(***************************************************************************)
\* what an engine shows: its config, its trail, its health and its
\* dashboard under every filter
ClaimShown(cfg, h, log, clock) ==
    [ config    |-> cfg,
      trail     |-> h[log],
      health    |-> getHealthStatus(cfg, h, log, clock),
      dashboard |-> [ f \in AuditFilters |-> getComplianceDashboard(h, log, f, clock) ] ]

\* how far each call of a list of validateSafety calls has come
ClaimProgress(cs) == [ c \in DOMAIN cs |-> cs[c].pc ]

\* C23: a step of a validateSafety call on one engine leaves the config,
\* the audit trail, the health output and every dashboard output of the
\* other engine as they were, however the calls on the two interleave.
Thm_C23_NoSharedState ==
    [][ /\ ClaimProgress(peer'.calls) # ClaimProgress(peer.calls) =>
              ClaimShown(config', heap', auditLog', now') = ClaimShown(config, heap, auditLog, now)
        /\ ClaimProgress(calls') # ClaimProgress(calls) =>
              ClaimShown(peer'.config, heap', peer'.auditLog, now')
                  = ClaimShown(peer.config, heap, peer.auditLog, now)
      ]_vars

\* both engines audit, and each has logged one validation of its own, of
\* a verdict other than the other's
Wit_C23_BothLogged ==
    /\ Len(Trail) = 1
    /\ Len(heap[peer.auditLog]) = 1
    /\ Trail[1].validationId = calls[1].validationId
    /\ heap[peer.auditLog][1].validationId = peer.calls[1].validationId
    /\ Trail[1].result.status # heap[peer.auditLog][1].result.status


(***************************************************************************)
(* Properties of validateSafety across contexts and trails.                *)
(***************************************************************************)
\* C24: the outcome of validateSafety depends only on the descriptor and
\* the config: whenever a call has returned a result, every finished call
\* of the same engine on the same descriptor, whatever its context and
\* whatever the trail held before it, has returned a result with the same
\* verdict, scores, risk assessment and recommendations.
Cex_C24_ContextIgnored ==
    \A c1, c2 \in DOMAIN calls :
        ( /\ calls[c1].aiSystem = calls[c2].aiSystem
          /\ calls[c1].pc = "resolved"
          /\ calls[c2].pc # "awaiting" ) =>
            /\ calls[c2].pc = "resolved"
            /\ ClaimContent(calls[c1].result) = ClaimContent(calls[c2].result)


\* C25: when a validateSafety call on an auditing engine returns its
\* result, the last event of the trail is of type safety_validation and
\* carries the validationId, the timestamp, the verdict, the score and the
\* risk level of that result, and no two events ever appended have the
\* same id.
Thm_C25_EventMatchesResult ==
    [][ \A c \in DOMAIN calls :
            ( /\ config.auditEnabled
              /\ calls[c].pc = "awaiting"
              /\ calls'[c].pc = "resolved" ) =>
                LET event  == heap'[auditLog'][Len(heap'[auditLog'])]
                    result == calls'[c].result
                IN  /\ event.type = "safety_validation"
                    /\ event.validationId = result.validationId
                    /\ event.timestamp = result.timestamp
                    /\ event.result.status = result.safetyStatus
                    /\ event.result.score = result.complianceScore
                    /\ event.result.riskLevel = result.riskAssessment.level
                    /\ \A i, j \in DOMAIN appended' :
                           i # j => appended'[i].id # appended'[j].id
      ]_vars

\* a call started on day 1 has returned on day 2, after a direct append of
\* day 2: its event follows that one in the trail and is stamped day 1
Wit_C25_StampedAtStart ==
    /\ now = 2
    /\ Len(calls) = 1
    /\ calls[1].pc = "resolved"
    /\ calls[1].result.timestamp = 1
    /\ Len(Trail) = 2
    /\ Trail[1].type = "system_event"
    /\ Trail[1].timestamp = 2
    /\ Trail[2].validationId = calls[1].validationId
    /\ Trail[2].timestamp = 1


(***************************************************************************)
(* Properties of batchAnalyze.                                             *)
(***************************************************************************)
\* the queries whose processQuery call is in flight
ClaimInFlight == { k \in DOMAIN batch.batchPromises : batch.batchPromises[k].state = "pending" }

\* the entries of results and errors that carry the id of the k-th query
ClaimEntries(k) ==
    Cardinality({ j \in DOMAIN batch.results : batch.results[j].id = batch.queries[k].id })
        + Cardinality({ j \in DOMAIN batch.errors : batch.errors[j].id = batch.queries[k].id })

\* C26: batchAnalyze never has more than 3 processQuery calls in flight;
\* while a call is in flight every query of the groups before its own has
\* its entry in results or errors; the request is never answered with a
\* failure because a query failed; and when it is answered every query has
\* exactly one entry, in results or in errors, so that successful + failed
\* = total.
Thm_C26_BatchGroups ==
    /\ Cardinality(ClaimInFlight) <= 3
    /\ \A k \in ClaimInFlight :
          \A j \in DOMAIN batch.queries :
              (j - 1) \div 3 < (k - 1) \div 3 => ClaimEntries(j) = 1
    /\ batch.response.code # 500
    /\ batch.pc = "responded" =>
          /\ \A k \in DOMAIN batch.queries : ClaimEntries(k) = 1
          /\ \A j \in DOMAIN batch.results : batch.results[j].status = "success"
          /\ \A j \in DOMAIN batch.errors : batch.errors[j].status = "error"
          /\ batch.response.total = Len(batch.queries)
          /\ batch.response.successful + batch.response.failed = batch.response.total

\* a batch of three groups was answered although queries of the first and
\* of the last group failed
Wit_C26_FailuresCollected ==
    /\ batch.pc = "responded"
    /\ Len(batch.queries) = 7
    /\ batch.response.code = 200
    /\ batch.response.failed = 2
    /\ batch.errors = << [id |-> 2, status |-> "error"], [id |-> 7, status |-> "error"] >>


(***************************************************************************)
(* Properties that relate the issues, the statuses and the risk.           *)
(***************************************************************************)
\* C27: in every result, a category of status fail holds an error issue,
\* a category of status pass holds none, and criticalFailures is the
\* number of categories of status fail.
Thm_C27_FailMeansError ==
    \A c \in Resolved :
        LET r == calls[c].result
        IN  /\ \A k \in DOMAIN r.safetyChecks :
                  /\ r.safetyChecks[k].status = "fail" =>
                         ClaimIssues(r.safetyChecks[k], "error") # {}
                  /\ r.safetyChecks[k].status = "pass" =>
                         ClaimIssues(r.safetyChecks[k], "error") = {}
            /\ r.riskAssessment.criticalFailures =
                   Cardinality({ k \in DOMAIN r.safetyChecks : r.safetyChecks[k].status = "fail" })

\* a category with every warning it can have and no error: it does not fail
Wit_C27_WarningsOnly ==
    \E c \in Resolved :
        LET res == calls[c].result.safetyChecks["transparency"]
        IN  /\ Cardinality(ClaimIssues(res, "warning")) = 2
            /\ ClaimIssues(res, "error") = {}
            /\ res.status = "warning"
            /\ calls[c].result.riskAssessment.criticalFailures = 0


(***************************************************************************)
(* C28: validation is monotone in the descriptor.  Of two resolved calls,  *)
(* if the second descriptor is deficient in no flag in which the first is  *)
(* not, then every category score and the complianceScore of the second    *)
(* are at least those of the first, a compliant first implies a compliant  *)
(* second, and the risk level of the second is not higher than that of the *)
(* first.                                                                  *)
(***************************************************************************)
ClaimFixes(d1, d2) ==
    \A i \in DOMAIN Flags : ClaimDeficient(d2, Flags[i]) => ClaimDeficient(d1, Flags[i])

ClaimRiskRank(level) == CASE level = "low" -> 1 [] level = "medium" -> 2 [] level = "high" -> 3

Thm_C28_Monotone ==
    \A c1, c2 \in Resolved :
        ClaimFixes(calls[c1].aiSystem, calls[c2].aiSystem)
        => LET r1 == calls[c1].result
               r2 == calls[c2].result
           IN  /\ \A k \in DOMAIN r1.safetyChecks :
                     r2.safetyChecks[k].score >= r1.safetyChecks[k].score
               /\ RatGE(r2.complianceScore, r1.complianceScore)
               /\ r1.safetyStatus = "compliant" => r2.safetyStatus = "compliant"
               /\ ClaimRiskRank(r2.riskAssessment.level)
                     <= ClaimRiskRank(r1.riskAssessment.level)

\* a descriptor without the flags of ethicalGuidelines is non-compliant at
\* medium risk, and the descriptor that fixes them is compliant at low risk
Wit_C28_FixedEthics ==
    \E c1, c2 \in Resolved :
        /\ ClaimFixes(calls[c1].aiSystem, calls[c2].aiSystem)
        /\ ~ClaimFixes(calls[c2].aiSystem, calls[c1].aiSystem)
        /\ calls[c1].result.safetyStatus = "non-compliant"
        /\ calls[c1].result.riskAssessment.level = "medium"
        /\ calls[c2].result.safetyStatus = "compliant"
        /\ calls[c2].result.riskAssessment.level = "low"
        /\ \E k \in DOMAIN calls[c1].result.safetyChecks :
              calls[c2].result.safetyChecks[k].score > calls[c1].result.safetyChecks[k].score


(***************************************************************************)
(* C29: under the default complianceThreshold 0.95, a validation with      *)
(* verdict 'compliant' has risk level low or medium, never high.           *)
(***************************************************************************)
Thm_C29_CompliantNotHigh ==
    \A c \in Resolved :
        ( /\ config.complianceThreshold = [num |-> 19, den |-> 20]
          /\ calls[c].result.safetyStatus = "compliant" )
        => calls[c].result.riskAssessment.level \in {"low", "medium"}

\* a compliant result at medium risk that holds a category with status
\* fail, counted as its one critical failure
Wit_C29_CompliantWithFail ==
    \E c \in Resolved :
        LET r == calls[c].result
        IN  /\ config.complianceThreshold = [num |-> 19, den |-> 20]
            /\ r.safetyStatus = "compliant"
            /\ r.riskAssessment.level = "medium"
            /\ r.riskAssessment.criticalFailures = 1
            /\ \E k \in DOMAIN r.safetyChecks : r.safetyChecks[k].status = "fail"


(***************************************************************************)
(* C30: an error issue in a category of status 'warning' (score in         *)
(* [0.6, 0.8)) is not counted as a critical failure and gets no            *)
(* recommendation: the critical failures are counted among the other       *)
(* categories only, no recommendation names the issue, and when every      *)
(* error lies in such a category there is no critical failure and no       *)
(* recommendation of priority high.                                        *)
(***************************************************************************)
ClaimErrorInWarning(safetyChecks) ==
    { k \in DOMAIN safetyChecks :
        /\ safetyChecks[k].status = "warning"
        /\ ClaimIssues(safetyChecks[k], "error") # {} }

Thm_C30_ErrorInWarningUnreported ==
    \A c \in Resolved :
        LET r    == calls[c].result
            recs == r.recommendations
            W    == ClaimErrorInWarning(r.safetyChecks)
        IN  /\ \A k \in W :
                  /\ r.safetyChecks[k].score >= 600
                  /\ r.safetyChecks[k].score < 800
                  /\ \A j \in ClaimIssues(r.safetyChecks[k], "error") :
                        \A i \in DOMAIN recs :
                            ~( /\ recs[i].category = k
                               /\ recs[i].issue = r.safetyChecks[k].checks[j].message )
            /\ r.riskAssessment.criticalFailures
                  <= Cardinality(DOMAIN r.safetyChecks \ W)
            /\ ( \A k \in DOMAIN r.safetyChecks :
                      ClaimIssues(r.safetyChecks[k], "error") # {} => k \in W )
                => /\ r.riskAssessment.criticalFailures = 0
                   /\ \A i \in DOMAIN recs : recs[i].priority # "high"

\* the descriptor deficient only in harmPrevention, on the engine of the
\* default threshold: ethicalGuidelines scores 0.6 with status warning, the
\* verdict is non-compliant, the risk level low, and nothing is recommended
Wit_C30_NothingRecommended ==
    \E c \in Resolved :
        LET r == calls[c].result
        IN  /\ config.complianceThreshold = [num |-> 19, den |-> 20]
            /\ \A i \in DOMAIN Flags :
                  ClaimDeficient(calls[c].aiSystem, Flags[i]) <=> Flags[i] = "harmPrevention"
            /\ ClaimErrorInWarning(r.safetyChecks) = {"ethicalGuidelines"}
            /\ r.safetyChecks["ethicalGuidelines"].score = 600
            /\ r.safetyStatus = "non-compliant"
            /\ r.riskAssessment.level = "low"
            /\ r.recommendations = <<>>

=============================================================================
